---- MODULE Spec2Model ----
(***************************************************************************)
(* Dense stereo correspondence of the workshop notebooks                   *)
(*   src/workshops/06_stereo_matching_fundamentals.ipynb      (block       *)
(*       matching over a disparity axis, parabola sub-pixel fit)           *)
(*   src/workshops/07_stereo_matching_fundamentals_continued.ipynb (plane  *)
(*       sweeping over a depth axis, multi-view stub, post-filter cells)   *)
(*                                                                         *)
(* Numbers.  A numpy float is modelled as an exact extended rational       *)
(* <<n, d>> in lowest terms with d >= 0: d > 0 is the finite value n/d,    *)
(* <<1,0>> and <<-1,0>> are +inf and -inf, <<0,0>> is NaN.  Arithmetic and *)
(* comparisons follow IEEE-754 for NaN and the infinities.                 *)
(*                                                                         *)
(* float32.  The operations the notebooks carry out on float32 arrays      *)
(* round as binary32 does (float32: to nearest, ties to even): the         *)
(* difference, the square and the channel sum of _get_cost and of          *)
(* plane_sweeping, the samples map_coordinates stores, the cost volumes    *)
(* cast to float32, the depth axis of np.arange, the rescaled point map    *)
(* of the smoothing cell and every operation of the sub-pixel fit of       *)
(* notebook 06.  A float32 value is held as n / 2^k with k <= 30 and       *)
(* |n| < 2^30: values beyond that range are outside the model.             *)
(*                                                                         *)
(* float64.  The convolve2d passes, the length of the depth axis, the      *)
(* Gaussian kernel and the post-filter cells work on float64 and round as  *)
(* binary64 does, operation by operation in the order of the code.         *)
(*                                                                         *)
(* Collaborators outside the notebooks.  project_points and the lens       *)
(* models are exact; find_subvalue_poly_2 fits in exact arithmetic and     *)
(* returns float32 values; convolution_2d_nan works in float64.            *)
(*                                                                         *)
(* Arrays.  An image is a sequence of rows, a row a sequence of pixels, a  *)
(* pixel a sequence of channel values.  Sequence positions are 1-based:    *)
(* position p of the model is numpy index p - 1.  Values that the code     *)
(* itself holds as indices (argmin results, idx) are kept 0-based as in    *)
(* the code and converted where a sequence is read.                        *)
(***************************************************************************)
EXTENDS Integers, Sequences, FiniteSets, TLC

VARIABLES
    pc,               \* position of the call: "ready", "returned", "raised"
    image_0,          \* reference image (input, read only)
    image_1,          \* secondary image (input, read only)
    args,             \* the remaining arguments of the call that ran
    error,            \* the exception that ended the call, "" if none
    disparity_error,  \* the cost volume [hypothesis][row][col] of the call
    fit,              \* per pixel, the locals of the sub-pixel fit (or <<>>)
    selected,         \* per pixel, the hypothesis value before invalidation
    disparity,        \* the map block_matching (or the fit alone) returned
    output_value,     \* the depth map of plane_sweeping after invalidation
    xyz,              \* the point map plane_sweeping returned
    depths,           \* the depth axis np.arange built for plane_sweeping
    single_pixel_error,         \* a per-pixel cost field before aggregation
    convoluted_error,           \* that field after the two convolve2d passes
    xyz_multiple_plane_sweep_,  \* what multi_camera_plane_sweeping returned
    xyz_multiple_plane_sweep,   \* the point map the post-filter starts from
    z_convolved,                \* filtering cell: the smoothed depth
    xyz_filtered,               \* filtering cell: the point map it leaves
    z_filtered_smoothed,        \* smoothing cell: the smoothed depth
    xyz_filtered_smoothed       \* smoothing cell: the rescaled point map

\* the variables of the cells that follow the two-view functions
cells == <<single_pixel_error, convoluted_error, xyz_multiple_plane_sweep_,
           xyz_multiple_plane_sweep, z_convolved, xyz_filtered,
           z_filtered_smoothed, xyz_filtered_smoothed>>

vars == <<pc, image_0, image_1, args, error, disparity_error, fit, selected,
          disparity, output_value, xyz, depths, cells>>

(***************************************************************************)
(* Bounds of the model.                                                    *)
(***************************************************************************)
MaxW == 5        \* image width
MaxPix == 2      \* largest intensity level of a pixel
MaxDisp == 2     \* disparity_range is drawn from -MaxDisp .. MaxDisp + 1
MaxBlock == 3    \* block_size is drawn from 1 .. MaxBlock
MaxN == 4        \* length of the hypothesis axis of a directly given volume
MaxCost == 4     \* largest cost of a directly given volume
MaxStep == 2     \* largest spacing of a depth axis
MaxDepth == 4    \* depth_range is drawn from 1 .. MaxDepth
MaxBase == 2     \* largest baseline between the two cameras
MaxMap == 4      \* width of a directly given depth map
MaxZ == 3        \* largest depth of a directly given depth map

(***************************************************************************)
(* IEEE-like exact arithmetic.                                             *)
(***************************************************************************)
Abs(n) == IF n < 0 THEN -n ELSE n

Sgn(n) == IF n < 0 THEN -1 ELSE IF n > 0 THEN 1 ELSE 0

RECURSIVE Gcd(_, _)
Gcd(m, n) == IF n = 0 THEN m ELSE Gcd(n, m % n)

NaN == <<0, 0>>

\* the float n / d, in lowest terms
Float(n, d) ==
    IF d = 0 THEN <<Sgn(n), 0>>
    ELSE LET g == Gcd(Abs(n), Abs(d))
         IN  <<(Sgn(d) * n) \div g, Abs(d) \div g>>

F(n) == <<n, 1>>

isnan(x) == x = NaN

isfinite(x) == x[2] > 0

fneg(x) == <<-x[1], x[2]>>

fabs(x) == <<Abs(x[1]), x[2]>>

fadd(x, y) ==
    IF isnan(x) \/ isnan(y) THEN NaN
    ELSE IF isfinite(x) /\ isfinite(y)
         THEN (IF x[2] = y[2] THEN Float(x[1] + y[1], x[2])
               ELSE LET g == Gcd(x[2], y[2])
                    IN  Float(x[1] * (y[2] \div g) + y[1] * (x[2] \div g),
                              x[2] * (y[2] \div g)))
    ELSE IF ~isfinite(x) /\ ~isfinite(y)
         THEN (IF x = y THEN x ELSE NaN)
    ELSE IF ~isfinite(x) THEN x ELSE y

fsub(x, y) == fadd(x, fneg(y))

fmul(x, y) ==
    IF isnan(x) \/ isnan(y) THEN NaN
    ELSE IF isfinite(x) /\ isfinite(y) THEN Float(x[1] * y[1], x[2] * y[2])
    ELSE <<Sgn(x[1]) * Sgn(y[1]), 0>>      \* inf * 0 = NaN, else signed inf

fdiv(x, y) ==
    IF isnan(x) \/ isnan(y) THEN NaN
    ELSE IF isfinite(x) /\ isfinite(y)
         THEN (IF y[1] = 0 THEN <<Sgn(x[1]), 0>>       \* x/0: +-inf, 0/0: NaN
               ELSE LET g == Gcd(Abs(x[1]), Abs(y[1]))
                        h == Gcd(x[2], y[2])
                    IN  Float((x[1] \div g) * (y[2] \div h),
                              (x[2] \div h) * (y[1] \div g)))
    ELSE IF ~isfinite(x) /\ ~isfinite(y) THEN NaN
    ELSE IF ~isfinite(x)
         THEN <<Sgn(x[1]) * (IF y[1] < 0 THEN -1 ELSE 1), 0>>
    ELSE F(0)

\* comparisons: every comparison with NaN is false
flt(x, y) ==
    /\ ~isnan(x)
    /\ ~isnan(y)
    /\ IF isfinite(x) /\ isfinite(y)
       THEN (IF x[2] = y[2] THEN x[1] < y[1]
             ELSE LET g == Gcd(x[2], y[2])
                  IN  x[1] * (y[2] \div g) < y[1] * (x[2] \div g))
       ELSE IF isfinite(x) THEN y[1] > 0
       ELSE IF isfinite(y) THEN x[1] < 0
       ELSE x[1] < y[1]

feq(x, y) == ~isnan(x) /\ ~isnan(y) /\ x = y

fle(x, y) == flt(x, y) \/ feq(x, y)

fgt(x, y) == flt(y, x)

fge(x, y) == fle(y, x)

\* the exact sum of a sequence of floats
RECURSIVE total(_)
total(s) == IF s = <<>> THEN F(0) ELSE fadd(Head(s), total(Tail(s)))

(***************************************************************************)
(* binary32.  A float32 array holds, for each exact result, the nearest    *)
(* number m * 2^e with |m| < 2^24, the even m when two are equally near.   *)
(* Exponents stay far from the ends of the binary32 range in every value   *)
(* the model builds, so overflow to inf and subnormals do not arise.       *)
(***************************************************************************)
RECURSIVE BitLen(_)
BitLen(m) == IF m = 0 THEN 0 ELSE 1 + BitLen(m \div 2)

\* q or q + 1: the rest beyond q is above (cmp > 0), at (cmp = 0) or below
\* (cmp < 0) one half
nearest_even(q, cmp) == IF cmp > 0 \/ (cmp = 0 /\ q % 2 = 1) THEN q + 1 ELSE q

\* the float m / 2^e for an integer m # 0 (e < 0: m * 2^-e), from m without
\* its factors of two
dyadic(m, e) ==
    IF e <= 0 THEN F(m * (2 ^ (-e)))
    ELSE LET t == Gcd(Abs(m), 1073741824)
         IN  IF BitLen(t) - 1 >= e THEN F(m \div (2 ^ e))
             ELSE <<m \div t, 2 ^ (e - (BitLen(t) - 1))>>

\* the quotient of a long division by d, bit by bit: acc holds the bits so
\* far, k of them behind the binary point, rem is what is left to divide; it
\* stops at a significand of 24 bits, or earlier when nothing is left
RECURSIVE significand(_, _, _, _)
significand(acc, rem, d, k) ==
    IF acc >= 8388608 \/ rem = 0
    THEN dyadic(nearest_even(acc, Sgn(rem - (d - rem))), k)
    ELSE IF rem >= d - rem
         THEN significand(2 * acc + 1, rem - (d - rem), d, k + 1)
         ELSE significand(2 * acc, 2 * rem, d, k + 1)

\* an integer part of more than 24 bits, its low bits rounded away
significand_wide(whole, rem) ==
    LET sh   == BitLen(whole) - 24
        low  == whole % (2 ^ sh)
        half == 2 ^ (sh - 1)
        cmp  == IF low > half THEN 1 ELSE IF low < half THEN -1
                ELSE IF rem > 0 THEN 1 ELSE 0
    IN  F(nearest_even(whole \div (2 ^ sh), cmp) * (2 ^ sh))

\* the same significand for a divisor d below 2^7, in one division: n / d
\* scaled by 2^k into [2^23, 2^24] and rounded
significand_short(n, d) ==
    LET k == IF n >= d THEN 24 - BitLen(n \div d) ELSE 23 + BitLen(d \div n)
        p == n * (2 ^ k)
    IN  Float(nearest_even(p \div d, Sgn(2 * (p % d) - d)), 2 ^ k)

\* the value x as an element of an array of dtype float32
float32(x) ==
    IF ~isfinite(x) \/ x[1] = 0 \/ (x[2] = 1 /\ Abs(x[1]) < 16777216) THEN x
    ELSE LET whole == Abs(x[1]) \div x[2]
             rem   == Abs(x[1]) % x[2]
             m     == IF whole >= 16777216 THEN significand_wide(whole, rem)
                      ELSE IF x[2] < 128
                           THEN significand_short(Abs(x[1]), x[2])
                      ELSE significand(whole, rem, x[2], 0)
         IN  IF x[1] < 0 THEN fneg(m) ELSE m

(***************************************************************************)
(* Operations on float32 operands: the exact result, rounded.  The exact   *)
(* sum or product of two float32 numbers can need more bits than an        *)
(* integer of the checker holds; it is then rounded from its leading bits  *)
(* and the knowledge of whether anything lies below them.                  *)
(***************************************************************************)
\* the integer m cut to 24 significant bits: <<q, s>> with q * 2^s the
\* rounded value; above tells that the exact value lies between m and m + 1
round_to_24(m, above) ==
    IF m < 16777216 THEN <<m, 0>>
    ELSE LET s    == BitLen(m) - 24
             low  == m % (2 ^ s)
             half == 2 ^ (s - 1)
             cmp  == IF low > half THEN 1 ELSE IF low < half THEN -1
                     ELSE IF above THEN 1 ELSE 0
         IN  <<nearest_even(m \div (2 ^ s), cmp), s>>

\* c + f for a float c whose numerator does not fit on the denominator of
\* the float f (a power of two times that of c): c is brought to 29 bits,
\* f is cut to the unit of those bits
add32_wide(c, f) ==
    LET sgn   == Sgn(c[1])
        a     == Abs(c[1])
        b     == sgn * f[1]
        up    == IF a >= 268435456 THEN 1 ELSE 2 ^ (29 - BitLen(a))
        down  == (f[2] \div c[2]) \div up
        whole == Abs(b) \div down
        above == Abs(b) % down # 0
        t     == IF b > 0 THEN a * up + whole
                 ELSE a * up - whole - (IF above THEN 1 ELSE 0)
        qs    == round_to_24(t, above)
    IN  dyadic(sgn * qs[1], BitLen(c[2] * up) - 1 - qs[2])

\* x + y on float32
add32(x, y) ==
    IF ~isfinite(x) \/ ~isfinite(y) \/ x[1] = 0 \/ y[1] = 0 THEN fadd(x, y)
    ELSE IF x[2] = 1 /\ y[2] = 1 /\ Abs(x[1]) < 8388608 /\ Abs(y[1]) < 8388608
         THEN F(x[1] + y[1])
    ELSE LET g  == Gcd(x[2], y[2])
             sx == y[2] \div g
             sy == x[2] \div g
         IN  IF \/ (Abs(x[1]) <= 1073741823 \div sx /\ Abs(y[1]) <= 1073741823 \div sy)
                \/ (sx > 1) = (sy > 1)
             THEN float32(fadd(x, y))
             ELSE IF sy = 1 THEN add32_wide(x, y)
             ELSE add32_wide(y, x)

\* x - y on float32
sub32(x, y) == add32(x, fneg(y))

\* x * y for float32 numbers whose numerators have a product beyond the
\* integers of the checker: the numerators without their factors of two, of
\* at most 24 bits each, are multiplied from their halves of 12 bits, which
\* gives their product as hi * 2^24 + lo
mul32_wide(x, y) ==
    LET sgn  == Sgn(x[1]) * Sgn(y[1])
        tx   == Gcd(Abs(x[1]), 1073741824)
        ty   == Gcd(Abs(y[1]), 1073741824)
        a    == Abs(x[1]) \div tx
        b    == Abs(y[1]) \div ty
        mid  == (a \div 4096) * (b % 4096) + (a % 4096) * (b \div 4096)
        low  == (mid % 4096) * 4096 + (a % 4096) * (b % 4096)
        lo   == low % 16777216
        hi   == (a \div 4096) * (b \div 4096) + (mid \div 4096) + (low \div 16777216)
        s    == BitLen(hi)
        rest == lo % (2 ^ s)
        q    == nearest_even(hi * (2 ^ (24 - s)) + (lo \div (2 ^ s)),
                             IF s = 0 THEN -1 ELSE Sgn(rest - (2 ^ (s - 1))))
        e    == (BitLen(x[2]) - BitLen(tx)) + (BitLen(y[2]) - BitLen(ty)) - s
    IN  dyadic(sgn * q, e)

\* x * y on float32
mul32(x, y) ==
    IF ~isfinite(x) \/ ~isfinite(y) \/ x[1] = 0 \/ y[1] = 0 THEN fmul(x, y)
    ELSE IF Abs(x[1]) <= 2147483647 \div Abs(y[1]) /\ x[2] <= 1073741824 \div y[2]
         THEN float32(fmul(x, y))
    ELSE mul32_wide(x, y)

\* x / y on float32
div32(x, y) == float32(fdiv(x, y))

\* the accumulation of s[i], s[i + 1], ... onto acc
RECURSIVE accumulate(_, _, _)
accumulate(s, i, acc) ==
    IF i > Len(s) THEN acc ELSE accumulate(s, i + 1, add32(acc, s[i]))

\* .sum(axis=-1) of a float32 array, on one vector of fewer than 8 entries:
\* the entries are added one after the other, each sum rounded
fsum(s) == IF s = <<>> THEN F(0) ELSE accumulate(s, 2, s[1])

(***************************************************************************)
(* binary64.  A float64 is <<s, hi, lo, e>>, standing for                  *)
(* s * (hi * 2^26 + lo) * 2^e with 2^26 <= hi < 2^27 and 0 <= lo < 2^26    *)
(* (a significand of 53 bits in two words); zero is <<0, 0, 0, 0>>, NaN is *)
(* <<0, 0, 0, 1>> and the infinities are <<1, 0, 0, 1>> and                *)
(* <<-1, 0, 0, 1>>.  Every operation gives the float64 nearest to the      *)
(* exact result, the even one of two equally near.  Exponents stay far     *)
(* from the ends of the binary64 range.                                    *)
(***************************************************************************)
\* the word of a float64 significand
W26 == 2 ^ 26

nan64 == <<0, 0, 0, 1>>

zero64 == <<0, 0, 0, 0>>

isnan64(x) == x = nan64

isfinite64(x) == x[2] # 0 \/ x[4] = 0

\* bits a .. a + n - 1 of the number w[1] + w[2] * 2^26 + w[3] * 2^52
\* (n <= 26; w[1], w[2] < 2^26, w[3] < 2^30)
bits(w, a, n) ==
    IF a >= 52
    THEN (IF a >= 82 THEN 0 ELSE (w[3] \div 2^(a - 52)) % 2^n)
    ELSE LET i == a \div 26
             have == 26 - (a % 26)
             low == w[i + 1] \div 2^(a % 26)
         IN  IF have >= n THEN low % 2^n
             ELSE low + (w[i + 2] % 2^(n - have)) * 2^have

\* the float64 nearest to s * (w + f) * 2^e, where w > 0 is a three-word
\* number and 0 < f < 1 when sticky, f = 0 otherwise
round_to_53(s, w, sticky, e) ==
    LET len == IF w[3] # 0 THEN 52 + BitLen(w[3])
               ELSE IF w[2] # 0 THEN 26 + BitLen(w[2]) ELSE BitLen(w[1])
    IN  IF len <= 53
        THEN LET up == 53 - len            \* exact: only shifted left
                 low == w[2] * W26 + w[1]  \* read when it fits a word
             IN  IF up = 0 THEN <<s, w[3] * W26 + w[2], w[1], e>>
                 ELSE IF up >= 26 THEN <<s, low * 2^(up - 26), 0, e - up>>
                 ELSE <<s, w[2] * 2^up + w[1] \div 2^(26 - up),
                        (w[1] % 2^(26 - up)) * 2^up, e - up>>
        ELSE LET sh == len - 53
                 hi == bits(w, sh + 26, 26) + bits(w, sh + 52, 1) * W26
                 lo == bits(w, sh, 26)
                 half == 2^(sh - 1)
                 rem == IF sh <= 26 THEN bits(w, 0, sh)
                        ELSE w[1] + (w[2] % 2^(sh - 26)) * W26
                 up == \/ rem > half
                       \/ rem = half /\ (sticky \/ lo % 2 = 1)
             IN  IF ~up THEN <<s, hi, lo, e + sh>>
                 ELSE IF lo + 1 < W26 THEN <<s, hi, lo + 1, e + sh>>
                 ELSE IF hi + 1 < 2 * W26 THEN <<s, hi + 1, 0, e + sh>>
                 ELSE <<s, W26, 0, e + sh + 1>>

\* the float64 product
mul64(x, y) ==
    IF isnan64(x) \/ isnan64(y) THEN nan64
    ELSE IF ~isfinite64(x) \/ ~isfinite64(y)
         THEN <<x[1] * y[1], 0, 0, 1>>            \* inf * 0 is NaN
    ELSE IF x = zero64 \/ y = zero64 THEN zero64
    ELSE LET a == <<x[3] % 8192, x[3] \div 8192, x[2] % 8192, x[2] \div 8192>>
             b == <<y[3] % 8192, y[3] \div 8192, y[2] % 8192, y[2] \div 8192>>
             c0 == a[1] * b[1]
             c1 == a[1] * b[2] + a[2] * b[1] + c0 \div 8192
             c2 == a[1] * b[3] + a[2] * b[2] + a[3] * b[1] + c1 \div 8192
             c3 == a[1] * b[4] + a[2] * b[3] + a[3] * b[2] + a[4] * b[1]
                   + c2 \div 8192
             c4 == a[2] * b[4] + a[3] * b[3] + a[4] * b[2] + c3 \div 8192
             c5 == a[3] * b[4] + a[4] * b[3] + c4 \div 8192
             c6 == a[4] * b[4] + c5 \div 8192
             p0 == (c0 % 8192) + (c1 % 8192) * 8192
             p1 == (c2 % 8192) + (c3 % 8192) * 8192
             p2 == (c4 % 8192) + (c5 % 8192) * 8192
         IN  round_to_53(x[1] * y[1], <<p1, p2, c6>>, p0 # 0,
                         x[4] + y[4] + 26)

abs64(x) == <<x[1] * x[1], x[2], x[3], x[4]>>

\* x < y on finite float64 of sign +1 (significands are normalised)
below(x, y) ==
    \/ x[4] < y[4]
    \/ x[4] = y[4] /\ (x[2] < y[2] \/ (x[2] = y[2] /\ x[3] < y[3]))

\* the float64 sum
add64(x, y) ==
    IF isnan64(x) \/ isnan64(y) THEN nan64
    ELSE IF ~isfinite64(x) /\ ~isfinite64(y)
         THEN (IF x = y THEN x ELSE nan64)
    ELSE IF ~isfinite64(x) \/ y = zero64 THEN x
    ELSE IF ~isfinite64(y) \/ x = zero64 THEN y
    ELSE LET swap == below(abs64(x), abs64(y))
             big == IF swap THEN y ELSE x
             small == IF swap THEN x ELSE y
             d == big[4] - small[4]
             A == <<0, big[3], big[2]>>
             full == <<0, small[3], small[2]>>
             B == IF d >= 79 THEN <<0, 0, 0>>
                  ELSE <<bits(full, d, 26), bits(full, d + 26, 26),
                         IF d >= 30 THEN 0 ELSE small[2] \div 2^d>>
             sticky == IF d <= 26 THEN FALSE
                       ELSE IF d <= 52 THEN small[3] % 2^(d - 26) # 0
                       ELSE IF d < 79
                            THEN small[3] # 0 \/ small[2] % 2^(d - 52) # 0
                       ELSE TRUE
             \* the three-word number w, its words brought back below 2^26
             carry(w) ==
                 LET c1 == w[1] \div W26
                     c2 == (w[2] + c1) \div W26
                 IN  <<w[1] % W26, (w[2] + c1) % W26, w[3] + c2>>
         IN  IF big[1] = small[1]
             THEN round_to_53(big[1],
                              carry(<<A[1] + B[1], A[2] + B[2], A[3] + B[3]>>),
                              sticky, big[4] - 26)
             ELSE IF d = 0 /\ big[2] = small[2] /\ big[3] = small[3]
                  THEN zero64
             ELSE LET t == IF sticky THEN 1 ELSE 0
                      \* A - B - t, borrowing through the words
                      w1 == A[1] - B[1] - t
                      b1 == IF w1 < 0 THEN 1 ELSE 0
                      w2 == A[2] - B[2] - b1
                      b2 == IF w2 < 0 THEN 1 ELSE 0
                  IN  round_to_53(big[1],
                                  <<w1 + b1 * W26, w2 + b2 * W26,
                                    A[3] - B[3] - b2>>,
                                  sticky, big[4] - 26)

\* the float64 difference
sub64(x, y) == add64(x, <<-y[1], y[2], y[3], y[4]>>)

\* long division of two-word numbers <<hi, lo>>, four bits a step: r < b
\* is what is left to divide, <<q1, q0>> the quotient so far; after n more
\* steps <<q1, q0, the rest is not zero>>.  The digit is estimated from
\* the high words, which is at most one too low.
RECURSIVE long_division(_, _, _, _, _)
long_division(r, b, q1, q0, n) ==
    IF n = 0 THEN <<q1, q0, r # <<0, 0>>>>
    ELSE LET hi == 16 * r[1] + (16 * r[2]) \div W26
             lo == (16 * r[2]) % W26
             low == hi \div (b[1] + 1)
             l1 == lo - ((low * b[2]) % W26)
             h1 == hi - low * b[1] - (low * b[2]) \div W26
                   - (IF l1 < 0 THEN 1 ELSE 0)
             m1 == IF l1 < 0 THEN l1 + W26 ELSE l1
             more == h1 > b[1] \/ (h1 = b[1] /\ m1 >= b[2])
             l2 == IF more THEN m1 - b[2] ELSE m1
             h2 == IF more THEN h1 - b[1] - (IF l2 < 0 THEN 1 ELSE 0) ELSE h1
             m2 == IF l2 < 0 THEN l2 + W26 ELSE l2
             n0 == 16 * q0 + low + (IF more THEN 1 ELSE 0)
         IN  long_division(<<h2, m2>>, b, 16 * q1 + n0 \div W26, n0 % W26,
                           n - 1)

\* the float64 quotient
div64(x, y) ==
    IF isnan64(x) \/ isnan64(y) THEN nan64
    ELSE IF ~isfinite64(x)
         THEN (IF ~isfinite64(y) THEN nan64
               ELSE <<x[1] * (IF y[1] < 0 THEN -1 ELSE 1), 0, 0, 1>>)
    ELSE IF ~isfinite64(y) THEN zero64
    ELSE IF y = zero64 THEN <<x[1], 0, 0, 1>>     \* x/0: +-inf, 0/0: NaN
    ELSE IF x = zero64 THEN zero64
    ELSE LET ge == x[2] > y[2] \/ (x[2] = y[2] /\ x[3] >= y[3])
             l0 == IF ge THEN x[3] - y[3] ELSE x[3]
             h0 == IF ge THEN x[2] - y[2] - (IF l0 < 0 THEN 1 ELSE 0)
                   ELSE x[2]
             m0 == IF l0 < 0 THEN l0 + W26 ELSE l0
             q == long_division(<<h0, m0>>, <<y[2], y[3]>>, 0,
                                IF ge THEN 1 ELSE 0, 14)
         IN  round_to_53(x[1] * y[1], <<q[2], q[1] % W26, q[1] \div W26>>,
                         q[3], x[4] - y[4] - 56)

\* comparisons: every comparison with NaN is false
lt64(x, y) ==
    /\ ~isnan64(x)
    /\ ~isnan64(y)
    /\ x # y
    /\ IF ~isfinite64(x) THEN x[1] < 0
       ELSE IF ~isfinite64(y) THEN y[1] > 0
       ELSE IF x[1] # y[1] THEN x[1] < y[1]
       ELSE IF x[1] > 0 THEN below(x, y) ELSE below(abs64(y), abs64(x))

\* the float64 of a float32 or integer value n / 2^k (exact)
float64(x) ==
    IF x[2] = 0 THEN <<x[1], 0, 0, 1>>
    ELSE IF x[1] = 0 THEN zero64
    ELSE LET m == Abs(x[1])
             len == BitLen(m)
             k == BitLen(x[2]) - 1
         IN  IF len <= 27
             THEN <<Sgn(x[1]), m * 2^(27 - len), 0, len - 53 - k>>
             ELSE <<Sgn(x[1]), m \div 2^(len - 27),
                    (m % 2^(len - 27)) * 2^(53 - len), len - 53 - k>>

\* x * 2^k for a finite float64
ldexp64(x, k) == IF x = zero64 THEN x ELSE <<x[1], x[2], x[3], x[4] + k>>

gt64(x, y) == lt64(y, x)

le64(x, y) == ~isnan64(x) /\ ~isnan64(y) /\ ~lt64(y, x)

ge64(x, y) == le64(y, x)

\* the float64 x as an element of an array of dtype float32
single(x) ==
    IF ~isfinite64(x) THEN <<x[1], 0>>
    ELSE IF x = zero64 THEN F(0)
    ELSE LET rem == (x[2] % 8) * W26 + x[3]
         IN  dyadic(x[1] * nearest_even(x[2] \div 8, Sgn(rem - 4 * W26)),
                    -(x[4] + 29))

\* math.ceil of a finite float64
ceil64(x) ==
    IF x = zero64 THEN 0
    ELSE LET whole == IF x[4] >= 0 THEN (x[2] * W26 + x[3]) * 2^x[4]
                      ELSE IF x[4] <= -53 THEN 0
                      ELSE IF x[4] <= -26 THEN x[2] \div 2^(-x[4] - 26)
                      ELSE x[2] * 2^(26 + x[4]) + x[3] \div 2^(-x[4])
             rest == IF x[4] >= 0 THEN FALSE
                     ELSE IF x[4] <= -53 THEN TRUE
                     ELSE IF x[4] <= -26
                          THEN x[3] # 0 \/ x[2] % 2^(-x[4] - 26) # 0
                     ELSE x[3] % 2^(-x[4]) # 0
         IN  IF x[1] > 0 THEN whole + (IF rest THEN 1 ELSE 0) ELSE -whole

\* the accumulation of s[i], s[i + 1], ... onto the float64 acc
RECURSIVE accumulate64(_, _, _)
accumulate64(s, i, acc) ==
    IF i > Len(s) THEN acc ELSE accumulate64(s, i + 1, add64(acc, s[i]))

(***************************************************************************)
(* numpy helpers.                                                          *)
(***************************************************************************)
\* an array as a stored sequence (the same value, evaluated once)
Array(s) == s \o <<>>

Height(a) == Len(a)

Width(a) == IF Len(a) = 0 THEN 0 ELSE Len(a[1])

\* an axis that takes the stop value in
arange_inclusive(start, stop) ==
    IF stop < start THEN <<>> ELSE [i \in 1 .. stop - start + 1 |-> start + i - 1]

\* np.arange(start, stop, dtype=np.int32) for integer start and stop
arange(start, stop) ==
    IF stop <= start THEN <<>> ELSE [i \in 1 .. stop - start |-> start + i - 1]

\* a circular shift of the columns in the opposite direction
roll_reversed(image, shift) ==
    [r \in 1 .. Height(image) |->
        [c \in 1 .. Width(image) |->
            image[r][((c - 1 + shift) % Width(image)) + 1]]]

\* np.roll(image, shift, axis=1): circular shift of the columns
roll(image, shift) ==
    [r \in 1 .. Height(image) |->
        [c \in 1 .. Width(image) |->
            image[r][((c - 1 - shift) % Width(image)) + 1]]]

\* np.clip(v, lo, hi) == minimum(maximum(v, lo), hi)
clip(v, lo, hi) ==
    LET m == IF v < lo THEN lo ELSE v IN IF m > hi THEN hi ELSE m

\* a[i] for a Python index i on an axis of length n (negative i wraps once)
PyIndex(i, n) == IF i < 0 THEN i + n ELSE i

\* whether a[i] raises IndexError on an axis of length n
IndexRaises(i, n) == i < -n \/ i >= n

\* np.argmin along a vector: the scan of numpy's float argmin, which keeps the
\* first minimum and stops at the first NaN.  The result is a 0-based index.
RECURSIVE argmin_scan(_, _, _)
argmin_scan(v, i, best) ==
    IF i > Len(v) \/ isnan(v[best]) THEN best
    ELSE IF ~fge(v[i], v[best]) THEN argmin_scan(v, i + 1, i)
    ELSE argmin_scan(v, i + 1, best)

argmin(v) == argmin_scan(v, 2, 1) - 1

\* the vector function_value[:, r, c]
Column(volume, r, c) == Array([i \in 1 .. Len(volume) |-> volume[i][r][c]])

IntMax(S) == CHOOSE m \in S : \A n \in S : n <= m

IntMin(S) == CHOOSE m \in S : \A n \in S : m <= n

Range(s) == {s[i] : i \in DOMAIN s}

(***************************************************************************)
(* Cost aggregation (notebook 06, block_matching; notebook 07,             *)
(* plane_sweeping).                                                        *)
(***************************************************************************)
SUM_OF_ABSOLUTE_DIFFERENCE == "SUM_OF_ABSOLUTE_DIFFERENCE"

SUM_OF_SQUARED_DIFFERENCE == "SUM_OF_SQUARED_DIFFERENCE"

CostFunction == {SUM_OF_ABSOLUTE_DIFFERENCE, SUM_OF_SQUARED_DIFFERENCE}

\* numpy broadcasting of two axes of lengths m and n: they must be equal
\* unless one of them is 1, and the result has the longer one
broadcast_dim(m, n) == IF m = 1 THEN n ELSE m

\* the position read on an axis of length n for position i of the result
broadcast_index(i, n) == IF n = 1 THEN 1 ELSE i

Channels(a) == Len(a[1][1])

\* image_0 - image_1 raises "operands could not be broadcast together"
broadcast_raises(a, b) ==
    \/ (Height(a) # Height(b) /\ Height(a) # 1 /\ Height(b) # 1)
    \/ (Width(a) # Width(b) /\ Width(a) # 1 /\ Width(b) # 1)
    \/ (Channels(a) # Channels(b) /\ Channels(a) # 1 /\ Channels(b) # 1)

\* image_0 - image_1 at position (r, c, k) of the broadcast result
difference(a, b, r, c, k) ==
    sub32(a[broadcast_index(r, Height(a))][broadcast_index(c, Width(a))]
          [broadcast_index(k, Channels(a))],
         b[broadcast_index(r, Height(b))][broadcast_index(c, Width(b))]
          [broadcast_index(k, Channels(b))])

\* np.abs(image_0 - image_1).sum(axis=-1)
sad(a, b) ==
    [r \in 1 .. broadcast_dim(Height(a), Height(b)) |->
        [c \in 1 .. broadcast_dim(Width(a), Width(b)) |->
            fsum([k \in 1 .. broadcast_dim(Channels(a), Channels(b)) |->
                fabs(difference(a, b, r, c, k))])]]

\* ((image_0 - image_1) ** 2).sum(axis=-1)
ssd(a, b) ==
    [r \in 1 .. broadcast_dim(Height(a), Height(b)) |->
        [c \in 1 .. broadcast_dim(Width(a), Width(b)) |->
            fsum([k \in 1 .. broadcast_dim(Channels(a), Channels(b)) |->
                mul32(difference(a, b, r, c, k), difference(a, b, r, c, k))])]]

\* _get_cost raises ValueError("Invalid cost function") for any other selector
get_cost_raises(cost_function) == cost_function \notin CostFunction

get_cost(a, b, cost_function) ==
    Array(IF cost_function = SUM_OF_ABSOLUTE_DIFFERENCE THEN sad(a, b)
          ELSE ssd(a, b))

\* The input positions under a kernel of length k centred by mode="same":
\* output position p (1-based) of the "same" result is position
\* p + (k-1)//2 of the "full" result.
Window(p, k, n) ==
    {j \in 1 .. n : p + ((k - 1) \div 2) - (k - 1) <= j /\ j <= p + ((k - 1) \div 2)}

\* one value of scipy's convolve2d: the sum starts at 0 and takes weight
\* times input for the kernel entries in turn, which reads the inputs under
\* the kernel from the last position S holds down to the first; a position
\* outside the input adds weight * 0, which leaves the sum as it is
RECURSIVE multiply_add(_, _, _, _)
multiply_add(line, weight, S, sum) ==
    IF S = {} THEN sum
    ELSE LET j == IntMax(S)
         IN  multiply_add(line, weight, S \ {j},
                          add64(sum, mul64(weight, line[j])))

\* the float32 costs as convolve2d takes them in, in float64
asarray_float64(field) ==
    Array([r \in 1 .. Height(field) |-> Array([c \in 1 .. Width(field) |->
        float64(field[r][c])])])

\* convolve2d(field, np.ones((1, k)) / k, mode="same"): zero fill outside,
\* every weight the float64 1 / k
convolve_rows(field, k) ==
    LET weight == div64(float64(F(1)), float64(F(k)))
    IN  Array([r \in 1 .. Height(field) |->
            Array([c \in 1 .. Width(field) |->
                multiply_add(field[r], weight, Window(c, k, Width(field)),
                             zero64)])])

\* the column pass left out
convolve_cols_skipped(field, k) == field

\* convolve2d(field, np.ones((k, 1)) / k, mode="same")
convolve_cols(field, k) ==
    LET weight == div64(float64(F(1)), float64(F(k)))
    IN  Array([r \in 1 .. Height(field) |->
            Array([c \in 1 .. Width(field) |->
                multiply_add(Array([i \in 1 .. Height(field) |-> field[i][c]]),
                             weight, Window(r, k, Height(field)), zero64)])])

\* the aggregation with the row kernel used in both passes
aggregate_rows_twice(field, block_size) ==
    convolve_rows(convolve_rows(asarray_float64(field), block_size),
                  block_size)

\* the two passes of the loop body on a float32 cost field: float64
aggregate(field, block_size) ==
    convolve_cols(convolve_rows(asarray_float64(field), block_size),
                  block_size)

(***************************************************************************)
(* Sub-pixel fit (notebook 06, find_subpixel_disparities_poly_2).          *)
(***************************************************************************)
\* the index bounded from above only
subpixel_idx_upper_only(raw, n) == IF raw > n - 2 THEN n - 2 ELSE raw

\* idx = np.clip(np.argmin(function_value, axis=0), 1, N - 2)
subpixel_idx(raw, n) == clip(raw, 1, n - 2)

\* the curvature without its factor 0.5
coef_a_unhalved(f_0, f_1, f_2) == sub32(add32(f_0, f_2), f_1)

\* a = 0.5 * (f_0 + f_2) - f_1, every operation on float32
coef_a(f_0, f_1, f_2) == sub32(mul32(Float(1, 2), add32(f_0, f_2)), f_1)

\* the slope with its two samples exchanged
coef_b_exchanged(f_0, f_2) == mul32(Float(1, 2), sub32(f_0, f_2))

\* b = 0.5 * (f_2 - f_0)
coef_b(f_0, f_2) == mul32(Float(1, 2), sub32(f_2, f_0))

\* the divisor without the replacement of 0 by NaN
unguarded_denom(a) == mul32(F(2), a)

\* denom = 2 * a; denom = np.where(denom == 0, np.nan, denom)
guarded_denom(a) ==
    LET denom == mul32(F(2), a)
    IN  IF feq(denom, F(0)) THEN NaN ELSE denom

\* the offset with the slope taken twice
raw_delta_doubled(b, denom) == div32(fneg(mul32(F(2), b)), denom)

\* delta = -b / denom
raw_delta(b, denom) == div32(fneg(b), denom)

\* a rejection that takes the boundary |delta| = 1 too
accepted_delta_open(delta) == IF fge(fabs(delta), F(1)) THEN NaN ELSE delta

\* delta = np.where(np.abs(delta) > 1, np.nan, delta)
accepted_delta(delta) == IF fgt(fabs(delta), F(1)) THEN NaN ELSE delta

\* the locals of the fit at one pixel, v being function_value[:, r, c];
\* delta_fit is delta after "delta = -b / denom", delta its final value
poly_2_at(disparities, v) ==
    LET n     == Len(disparities)
        raw   == argmin(v)
        idx   == subpixel_idx(raw, n)
        f_0   == v[PyIndex(idx - 1, Len(v)) + 1]
        f_1   == v[PyIndex(idx, Len(v)) + 1]
        f_2   == v[PyIndex(idx + 1, Len(v)) + 1]
        a     == coef_a(f_0, f_1, f_2)
        b     == coef_b(f_0, f_2)
        denom == guarded_denom(a)
        delta == accepted_delta(raw_delta(b, denom))
    IN  [raw |-> raw, idx |-> idx, f_0 |-> f_0, f_1 |-> f_1, f_2 |-> f_2,
         a |-> a, b |-> b, denom |-> denom,
         delta_fit |-> raw_delta(b, denom), delta |-> delta,
         value |-> add32(F(disparities[PyIndex(idx, n) + 1]), delta)]

\* function_value[idx - 1], function_value[idx] or function_value[idx + 1]
\* is out of range (only an axis of one value does that: idx = -1)
find_subpixel_raises(disparities, function_value) ==
    LET n   == Len(function_value)
        idx == subpixel_idx(0, Len(disparities))
    IN  \/ IndexRaises(idx - 1, n)
        \/ IndexRaises(idx, n)
        \/ IndexRaises(idx + 1, n)

find_subpixel_disparities_poly_2(disparities, function_value) ==
    Array([r \in 1 .. Height(function_value[1]) |->
        Array([c \in 1 .. Width(function_value[1]) |->
            poly_2_at(disparities, Column(function_value, r, c))])])

(***************************************************************************)
(* Block matching (notebook 06, block_matching).                           *)
(***************************************************************************)
\* np.array(..., dtype=np.float32) on one float64 slice
astype_float32(field) ==
    [r \in 1 .. Height(field) |-> [c \in 1 .. Width(field) |->
        single(field[r][c])]]

\* the loop over the disparities: one aggregated cost slice per disparity,
\* the list cast to float32
cost_volume(im_0, im_1, disparities, block_size, cost_function) ==
    Array([i \in 1 .. Len(disparities) |->
        astype_float32(
            aggregate(get_cost(im_0, roll(im_1, disparities[i]), cost_function),
                      block_size))])

\* values[np.argmin(volume, axis=0)].astype(np.float32)
select_discrete(values, volume) ==
    [r \in 1 .. Height(volume[1]) |-> [c \in 1 .. Width(volume[1]) |->
        values[argmin(Column(volume, r, c)) + 1]]]

\* disparity[:, :m] = np.nan
invalidate_left(map, m) ==
    [r \in 1 .. Height(map) |-> [c \in 1 .. Width(map) |->
        IF c <= m THEN NaN ELSE map[r][c]]]

\* a right border one column short
invalidate_right_short(map, m) ==
    [r \in 1 .. Height(map) |-> [c \in 1 .. Width(map) |->
        IF m = 0 \/ c > Width(map) - m + 1 THEN NaN ELSE map[r][c]]]

\* disparity[:, -m:] = np.nan   (for m = 0 the slice -0: is the whole row)
invalidate_right(map, m) ==
    [r \in 1 .. Height(map) |-> [c \in 1 .. Width(map) |->
        IF m = 0 \/ c > Width(map) - m THEN NaN ELSE map[r][c]]]

\* an invalidation that leaves the two extreme values in the map
invalidate_extrema_open(map, lo, hi) ==
    [r \in 1 .. Height(map) |-> [c \in 1 .. Width(map) |->
        IF fgt(map[r][c], hi) \/ flt(map[r][c], lo) THEN NaN ELSE map[r][c]]]

\* map[map >= hi] = np.nan; map[map <= lo] = np.nan
invalidate_extrema(map, lo, hi) ==
    [r \in 1 .. Height(map) |-> [c \in 1 .. Width(map) |->
        IF fge(map[r][c], hi) \/ fle(map[r][c], lo) THEN NaN ELSE map[r][c]]]

FloatSeq(s) == [i \in DOMAIN s |-> F(s[i])]

Values(locals) ==
    [r \in 1 .. Height(locals) |-> [c \in 1 .. Width(locals) |->
        locals[r][c].value]]

\* the call ends with the exception e: nothing is returned
Raise(a, e) ==
    /\ pc' = "raised"
    /\ args' = a
    /\ error' = e
    /\ disparity_error' = <<>>
    /\ fit' = <<>>
    /\ selected' = <<>>
    /\ disparity' = <<>>
    /\ output_value' = <<>>
    /\ xyz' = <<>>
    /\ depths' = <<>>
    /\ UNCHANGED cells

\* the call returns map; volume, locals and chosen are its locals at return
Return(a, volume, locals, chosen, map) ==
    /\ pc' = "returned"
    /\ args' = a
    /\ error' = ""
    /\ disparity_error' = volume
    /\ fit' = locals
    /\ selected' = chosen
    /\ disparity' = map
    /\ output_value' = <<>>
    /\ xyz' = <<>>
    /\ depths' = <<>>
    /\ UNCHANGED cells

\* the border width taken from the largest disparity, sign kept
max_signed(disparities) == IntMax(Range(disparities))

\* int(np.abs(disparities).max())
max_abs(disparities) == IntMax({Abs(d) : d \in Range(disparities)})

\* the four invalidation statements that end block_matching
invalidate(chosen, disparities) ==
    invalidate_extrema(
        invalidate_right(invalidate_left(chosen, max_abs(disparities)),
                         max_abs(disparities)),
        F(IntMin(Range(disparities))),
        F(IntMax(Range(disparities))))

block_matching_call(disparity_range, block_size, subpixel_fit, cost_function) ==
    \E a \in {[disparity_range |-> disparity_range, block_size |-> block_size,
              subpixel_fit |-> subpixel_fit, cost_function |-> cost_function]},
       disparities \in {arange(disparity_range[1], disparity_range[2])} :
        IF Len(disparities) > 0 /\ get_cost_raises(cost_function)
        THEN Raise(a, "ValueError: Invalid cost function")
        ELSE IF Len(disparities) > 0 /\ broadcast_raises(image_0, image_1)
        THEN Raise(a, "ValueError: operands could not be broadcast together")
        ELSE IF Len(disparities) = 0
        THEN (IF subpixel_fit
              THEN Raise(a, "IndexError: tuple index out of range")
              ELSE Raise(a, "ValueError: attempt to get argmin of an empty sequence"))
        ELSE \E volume \in {cost_volume(image_0, image_1, disparities,
                                        block_size, cost_function)} :
            IF subpixel_fit
            THEN IF find_subpixel_raises(disparities, volume)
                 THEN Raise(a, "IndexError: index out of bounds")
                 ELSE \E locals \in {find_subpixel_disparities_poly_2(
                                        disparities, volume)} :
                      \E chosen \in {Values(locals)} :
                         Return(a, volume, locals, chosen,
                                invalidate(chosen, disparities))
            ELSE \E chosen \in {select_discrete(FloatSeq(disparities), volume)} :
                    Return(a, volume, <<>>, chosen,
                           invalidate(chosen, disparities))

block_matching ==
    /\ pc = "ready"
    /\ \E lo \in -MaxDisp .. 0, hi \in 0 .. MaxDisp + 1,
          block_size \in 1 .. MaxBlock, subpixel_fit \in BOOLEAN,
          cost_function \in CostFunction \cup {"OTHER"} :
          block_matching_call(<<lo, hi>>, block_size, subpixel_fit,
                              cost_function)
    /\ UNCHANGED <<image_0, image_1>>

(***************************************************************************)
(* Inputs of the block-matching specification: single-row, single-channel  *)
(* image pairs showing one feature on a dark background.                   *)
(***************************************************************************)
Impulse(p, v) == <<[c \in 1 .. MaxW |-> <<F(IF c = p THEN v ELSE 0)>>]>>

Scenes == {Impulse(p, v) : p \in 1 .. MaxW, v \in 0 .. MaxPix}

\* nothing of the later cells has run
NoCells ==
    /\ single_pixel_error = <<>>
    /\ convoluted_error = <<>>
    /\ xyz_multiple_plane_sweep_ = <<>>
    /\ xyz_multiple_plane_sweep = <<>>
    /\ z_convolved = <<>>
    /\ xyz_filtered = <<>>
    /\ z_filtered_smoothed = <<>>
    /\ xyz_filtered_smoothed = <<>>

Init ==
    /\ pc = "ready"
    /\ image_0 \in Scenes
    /\ image_1 \in Scenes
    /\ args = <<>>
    /\ error = ""
    /\ disparity_error = <<>>
    /\ fit = <<>>
    /\ selected = <<>>
    /\ disparity = <<>>
    /\ output_value = <<>>
    /\ xyz = <<>>
    /\ depths = <<>>
    /\ NoCells

Next == block_matching

Spec == Init /\ [][Next]_vars

(***************************************************************************)
(* The sub-pixel fit as a function of a directly given cost volume         *)
(* (notebook 06, the call of find_subpixel_disparities_poly_2 on           *)
(* disparity_error; notebook 07, the call of find_subvalue_poly_2 on       *)
(* error_array).  The volume has one pixel and finite costs.               *)
(***************************************************************************)
\* oaf_vision_3d.poly_2_subvalue_fit.find_subvalue_poly_2 at one pixel, up
\* to the offset: the closed form of the parabola fit on an axis of n values.
\* The collaborator's precision is not stated; its arithmetic is exact here
\* and the value it returns is stored as float32.
subvalue_fit(n, v) ==
    LET raw   == argmin(v)
        idx   == subpixel_idx(raw, n)
        f_0   == v[PyIndex(idx - 1, Len(v)) + 1]
        f_1   == v[PyIndex(idx, Len(v)) + 1]
        f_2   == v[PyIndex(idx + 1, Len(v)) + 1]
        a     == fsub(fmul(Float(1, 2), fadd(f_0, f_2)), f_1)
        b     == fmul(Float(1, 2), fsub(f_2, f_0))
        denom == IF feq(fmul(F(2), a), F(0)) THEN NaN ELSE fmul(F(2), a)
        delta == fdiv(fneg(b), denom)
    IN  [raw |-> raw, idx |-> idx, f_0 |-> f_0, f_1 |-> f_1, f_2 |-> f_2,
         a |-> a, b |-> b, denom |-> denom, delta_fit |-> delta,
         delta |-> IF fgt(fabs(delta), F(1)) THEN NaN ELSE delta]

\* the fit on a value axis, the offset mapped through the spacing of the
\* axis at idx and the value stored as float32
subvalue_at(values, v) ==
    LET n    == Len(values)
        t    == subvalue_fit(n, v)
        step == fsub(values[PyIndex(t.idx + 1, n) + 1], values[PyIndex(t.idx, n) + 1])
    IN  [f \in DOMAIN t \cup {"value"} |->
            IF f = "value"
            THEN float32(fadd(values[PyIndex(t.idx, n) + 1],
                              fmul(t.delta, step)))
            ELSE t[f]]

find_subvalue_poly_2(values, function_value) ==
    Array([r \in 1 .. Height(function_value[1]) |->
        Array([c \in 1 .. Width(function_value[1]) |->
            subvalue_at(values, Column(function_value, r, c))])])

\* depth_range[0] + i * step_size for i = 0 .. n - 1, as floats
depth_axis(start, step, n) == [i \in 1 .. n |-> F(start + (i - 1) * step)]

\* float32 costs one or a few units in the last place above 1, where the sum
\* of two of them is not a float32 number
NearOne == {Float(8388608 + k, 8388608) : k \in 0 .. MaxCost + 1}

CostColumns ==
    UNION {[1 .. n -> {F(x) : x \in 0 .. MaxCost}] : n \in 1 .. MaxN}
        \cup [1 .. 3 -> NearOne]

\* the volume of shape (N, 1, 1) holding the column v
OnePixel(v) == [i \in 1 .. Len(v) |-> <<<<v[i]>>>>]

\* an int32 axis of n disparities from start, spacing apart
spaced(start, spacing, n) == [i \in 1 .. n |-> start + (i - 1) * spacing]

fit_disparities ==
    /\ pc = "ready"
    /\ \E lo \in -MaxDisp .. 0, spacing \in 1 .. MaxStep :
       \E disparities \in {spaced(lo, spacing, Len(disparity_error))} :
       \E a \in {[disparities |-> disparities]} :
          IF find_subpixel_raises(disparities, disparity_error)
          THEN Raise(a, "IndexError: index out of bounds")
          ELSE \E locals \in {find_subpixel_disparities_poly_2(
                                  disparities, disparity_error)} :
                  Return(a, disparity_error, locals, Values(locals),
                         Values(locals))
    /\ UNCHANGED <<image_0, image_1>>

fit_values ==
    /\ pc = "ready"
    /\ \E start \in 1 .. MaxStep, step \in 1 .. MaxStep :
       \E values \in {depth_axis(start, step, Len(disparity_error))} :
       \E a \in {[values |-> values]} :
          IF find_subpixel_raises(values, disparity_error)
          THEN Raise(a, "IndexError: index out of bounds")
          ELSE \E locals \in {find_subvalue_poly_2(values, disparity_error)} :
                  Return(a, disparity_error, locals, Values(locals),
                         Values(locals))
    /\ UNCHANGED <<image_0, image_1>>

InitFit ==
    /\ pc = "ready"
    /\ image_0 = <<>>
    /\ image_1 = <<>>
    /\ args = <<>>
    /\ error = ""
    /\ disparity_error \in {OnePixel(v) : v \in CostColumns}
    /\ fit = <<>>
    /\ selected = <<>>
    /\ disparity = <<>>
    /\ output_value = <<>>
    /\ xyz = <<>>
    /\ depths = <<>>
    /\ NoCells

NextFit == fit_disparities \/ fit_values

SpecFit == InitFit /\ [][NextFit]_vars

(***************************************************************************)
(* Plane sweeping (notebook 07).  The lens models and project_points are   *)
(* collaborators outside the notebooks: both cameras are taken as ideal    *)
(* pinhole cameras of unit focal length, the reference camera with its     *)
(* principal point at pixel (0, 0), the secondary camera with its          *)
(* principal point at column cx and displaced by a baseline t along the x  *)
(* axis of the reference camera.                                           *)
(***************************************************************************)
\* lens_model_0.undistort_pixels(lens_model_0.normalize_pixels(pixels)) of
\* pixels = np.indices(shape)[::-1]: the pixel (column, row) itself
undistorted_normalized_pixels(image) ==
    [r \in 1 .. Height(image) |-> [c \in 1 .. Width(image) |->
        <<F(c - 1), F(r - 1)>>]]

\* np.pad(..., ((0, 0), (0, 0), (0, 1)), constant_values=1.0)
camera_vectors(image) ==
    Array([r \in 1 .. Height(image) |-> Array([c \in 1 .. Width(image) |->
        Append(undistorted_normalized_pixels(image)[r][c], F(1))])])

\* project_points for one point of the reference frame: move it into the
\* secondary frame (x - t), project it and denormalize it with the secondary
\* lens model, giving (column, row)
project_point(point, cx, t) ==
    <<fadd(fdiv(fsub(point[1], F(t)), point[3]), F(cx)),
      fdiv(point[2], point[3])>>

\* the floor of a finite float
floor(x) == x[1] \div x[2]

\* map_coordinates(input, [[y], [x]], order=1, mode="constant", cval=nan) on
\* one channel: bilinear between the four samples around (y, x); a coordinate
\* outside [0, n - 1] on either axis gives cval.  The interpolation is done
\* in double precision and stored in the float32 result.
map_coordinate(image, k, y, x) ==
    IF \/ ~isfinite(y) \/ ~isfinite(x)
       \/ flt(y, F(0)) \/ fgt(y, F(Height(image) - 1))
       \/ flt(x, F(0)) \/ fgt(x, F(Width(image) - 1))
    THEN NaN
    ELSE LET r0 == floor(y)
             c0 == floor(x)
             wy == fsub(y, F(r0))
             wx == fsub(x, F(c0))
             at(r, c, w) == IF w = F(0) THEN F(0)
                            ELSE fmul(w, image[r + 1][c + 1][k])
         IN  float32(
                fadd(fadd(at(r0, c0, fmul(fsub(F(1), wy), fsub(F(1), wx))),
                          at(r0, c0 + 1, fmul(fsub(F(1), wy), wx))),
                     fadd(at(r0 + 1, c0, fmul(wy, fsub(F(1), wx))),
                          at(r0 + 1, c0 + 1, fmul(wy, wx)))))

repeoject_image_at_depth(image, vectors, depth, cx, t) ==
    Array([r \in 1 .. Height(vectors) |-> Array([c \in 1 .. Width(vectors) |->
        LET xyz_rc == [i \in 1 .. 3 |-> mul32(vectors[r][c][i], depth)]
            projected == project_point(xyz_rc, cx, t)
        IN  [k \in 1 .. Len(image[1][1]) |->
                map_coordinate(image, k, projected[2], projected[1])]])])

\* the Python float that the decimal literal n / d denotes
literal(n, d) == div64(float64(F(n)), float64(F(d)))

\* the array np.arange(..., dtype=np.float32) fills from its first value
\* start, its second value next (start + step stored as float32) and its
\* length (ceil((stop - start) / step) in the arithmetic of the scalars):
\* value i is start + i * delta in float32, delta being the difference of
\* the first two.  A float32 operation is the float64 one rounded to float32, which
\* is the same number.
np_arange(start, length, next) ==
    LET delta == single(sub64(float64(next), float64(start)))
    IN  IF length <= 0 THEN <<>>
        ELSE [i \in 1 .. length |->
                IF i = 1 THEN start
                ELSE IF i = 2 THEN next
                ELSE single(add64(float64(start),
                        float64(single(mul64(float64(F(i - 1)),
                                             float64(delta))))))]

\* the axis with stop itself as the exclusive end
depth_arange_exclusive(start, stop, step_size, legacy) ==
    np_arange(start,
              ceil64(div64(sub64(float64(stop), float64(start)), step_size)),
              single(add64(float64(start), step_size)))

\* depths = np.arange(start=depth_range[0], stop=depth_range[1] + step_size,
\* step=step_size, dtype=np.float32), depth_range being a float32 array and
\* step_size a Python float.  With the legacy promotion of numpy 1 the sum,
\* the difference and the quotient of a float32 scalar and a Python float
\* are float64; with the promotion of numpy 2 the Python float is taken to
\* float32 and they are float32.
depth_arange(start, stop, step_size, legacy) ==
    IF legacy
    THEN LET end == add64(float64(stop), step_size)
         IN  np_arange(start,
                 ceil64(div64(sub64(end, float64(start)), step_size)),
                 single(add64(float64(start), step_size)))
    ELSE LET step == float64(single(step_size))
             end == float64(single(add64(float64(stop), step)))
         IN  np_arange(start,
                 ceil64(float64(single(div64(
                     float64(single(sub64(end, float64(start)))), step)))),
                 single(add64(float64(start), step)))

\* the loop over the depths: one aggregated cost slice per depth, the list
\* cast to float32
sweep_volume(im_0, im_1, vectors, axis, cx, t, block_size) ==
    Array([i \in 1 .. Len(axis) |->
        astype_float32(
            aggregate(Array(sad(im_0, repeoject_image_at_depth(im_1, vectors,
                                                           axis[i], cx, t))),
                      block_size))])

FloatMax(S) == CHOOSE m \in S : \A x \in S : fle(x, m)

FloatMin(S) == CHOOSE m \in S : \A x \in S : fle(m, x)

\* the scaling with the third component of each ray left at one
scale_vectors_planar(vectors, map) ==
    Array([r \in 1 .. Height(map) |-> Array([c \in 1 .. Width(map) |->
        Array([i \in 1 .. 3 |-> IF i = 3 THEN vectors[r][c][i]
                                ELSE mul32(vectors[r][c][i], map[r][c])])])])

\* camera_vectors_0 * output_value[..., None], a product of float32 arrays:
\* each component is the float32 nearest to ray component times depth
scale_vectors(vectors, map) ==
    Array([r \in 1 .. Height(map) |-> Array([c \in 1 .. Width(map) |->
        Array([i \in 1 .. 3 |-> mul32(vectors[r][c][i], map[r][c])])])])

\* plane_sweeping returns points; map is output_value at the return
ReturnPoints(a, axis, volume, locals, chosen, map, points) ==
    /\ pc' = "returned"
    /\ args' = a
    /\ error' = ""
    /\ disparity_error' = volume
    /\ fit' = locals
    /\ selected' = chosen
    /\ disparity' = <<>>
    /\ output_value' = map
    /\ xyz' = points
    /\ depths' = axis
    /\ UNCHANGED cells

plane_sweeping_call(cx, t, depth_range, step_size, block_size, subpixel_fit) ==
    \E a \in {[lens_model_1 |-> cx, transformation_matrix |-> t,
              depth_range |-> depth_range,
              step_size |-> step_size, block_size |-> block_size,
              subpixel_fit |-> subpixel_fit]},
       vectors \in {camera_vectors(image_0)},
       axis \in {depth_arange(F(depth_range[1]), F(depth_range[2]),
                              float64(F(step_size)), legacy) :
                    legacy \in BOOLEAN} :
        IF Len(axis) = 0
        THEN Raise(a, "ValueError: attempt to get argmin of an empty sequence")
        ELSE \E volume \in {sweep_volume(image_0, image_1, vectors, axis,
                                         cx, t, block_size)} :
            IF subpixel_fit
            THEN IF find_subpixel_raises(axis, volume)
                 THEN Raise(a, "IndexError: index out of bounds")
                 ELSE \E locals \in {find_subvalue_poly_2(axis, volume)} :
                      \E map \in {invalidate_extrema(Values(locals),
                                      FloatMin(Range(axis)),
                                      FloatMax(Range(axis)))} :
                         ReturnPoints(a, axis, volume, locals, Values(locals),
                                      map, scale_vectors(vectors, map))
            ELSE \E chosen \in {select_discrete(axis, volume)} :
                 \E map \in {invalidate_extrema(chosen,
                                 FloatMin(Range(axis)),
                                 FloatMax(Range(axis)))} :
                    ReturnPoints(a, axis, volume, <<>>, chosen, map,
                                 scale_vectors(vectors, map))

plane_sweeping ==
    /\ pc = "ready"
    /\ \E cx \in {0, MaxBase}, t \in {1, MaxBase}, lo \in 1 .. 2,
          hi \in {MaxDepth - 1, MaxDepth}, step_size \in {1, MaxStep},
          block_size \in {1, MaxBlock}, subpixel_fit \in BOOLEAN :
          plane_sweeping_call(cx, t, <<lo, hi>>, step_size, block_size,
                              subpixel_fit)
    /\ UNCHANGED <<image_0, image_1>>

NextPS == plane_sweeping

SpecPS == Init /\ [][NextPS]_vars

(***************************************************************************)
(* The depth axis as a function of depth_range and step_size (notebook 07  *)
(* lines 553-558).  depth_range is a float32 array, as in the notebook's   *)
(* calls (130 to 150 by 1.5, 135 to 142 by 0.5), and step_size a Python    *)
(* float.                                                                  *)
(***************************************************************************)
\* lines 553-558 of plane_sweeping, for either promotion of the numpy build
arrange_depths ==
    /\ pc = "ready"
    /\ \E legacy \in BOOLEAN :
          depths' = depth_arange(args.depth_range[1], args.depth_range[2],
                                 args.step_size, legacy)
    /\ pc' = "arranged"
    /\ UNCHANGED <<image_0, image_1, args, error, disparity_error, fit,
                   selected, disparity, output_value, xyz>>
    /\ UNCHANGED cells

\* depth ranges with float32 ends, at most 20 units long, one of them empty
\* (3 to 1), and step sizes 0.1, 0.3, 0.5, 1.0, 1.5 and 2.0
InitAxis ==
    LET RangeEnds == {F(1), float32(Float(12, 10)), Float(3, 2), F(2), F(3),
                      Float(7, 2), F(130), F(135), F(142), F(150)}
        StepSizes == {literal(1, 10), literal(3, 10), literal(5, 10),
                      literal(1, 1), literal(15, 10), literal(2, 1),
                      literal(-1, 2)}
    IN
    /\ pc = "ready"
    /\ image_0 = <<>>
    /\ image_1 = <<>>
    /\ \E r \in RangeEnds \X RangeEnds, s \in StepSizes :
          /\ fle(r[1], r[2]) \/ r = <<F(3), F(1)>>
          /\ fle(fsub(r[2], r[1]), F(20))
          /\ args = [depth_range |-> r, step_size |-> s]
    /\ error = ""
    /\ disparity_error = <<>>
    /\ fit = <<>>
    /\ selected = <<>>
    /\ disparity = <<>>
    /\ output_value = <<>>
    /\ xyz = <<>>
    /\ depths = <<>>
    /\ NoCells

NextAxis == arrange_depths

SpecAxis == InitAxis /\ [][NextAxis]_vars

(***************************************************************************)
(* Multi-view plane sweeping (notebook 07).  The function is defined with  *)
(* the body "...", so a call evaluates its arguments and returns None; the *)
(* cell that calls it then falls back to the two-view point map.  The cell *)
(* runs after plane_sweeping has returned xyz (xyz_single_plane_sweep) and *)
(* is given the cameras of that call, one secondary camera or two.         *)
(***************************************************************************)
None == "None"

multi_camera_plane_sweeping(image, lens_model, secondary_images, secondary_lens_models, secondary_transformation_matrices, depth_range, step_size, block_size, subpixel_fit) ==
    None

\* xyz_single_plane_sweep if xyz_multiple_plane_sweep_ is None else
\* xyz_multiple_plane_sweep_
fallback(xyz_single_plane_sweep, returned) ==
    IF returned = None THEN xyz_single_plane_sweep ELSE returned

multi_view_cell ==
    /\ pc = "returned"
    /\ "depth_range" \in DOMAIN args
    /\ "secondary_cameras" \notin DOMAIN args
    /\ \E n \in 1 .. 2 :
       \E returned \in {multi_camera_plane_sweeping(
                            image_0, 0,
                            [i \in 1 .. n |-> image_1],
                            [i \in 1 .. n |-> args.lens_model_1],
                            [i \in 1 .. n |-> args.transformation_matrix],
                            args.depth_range, args.step_size,
                            args.block_size, args.subpixel_fit)} :
          /\ args' = [k \in DOMAIN args \cup {"secondary_cameras"} |->
                        IF k = "secondary_cameras" THEN n ELSE args[k]]
          /\ xyz_multiple_plane_sweep_' = returned
          /\ xyz_multiple_plane_sweep' = fallback(xyz, returned)
    /\ pc' = "fused"
    /\ UNCHANGED <<image_0, image_1, error, disparity_error, fit, selected,
                   disparity, output_value, xyz, depths, single_pixel_error,
                   convoluted_error, z_convolved, xyz_filtered,
                   z_filtered_smoothed, xyz_filtered_smoothed>>

InitMV == Init /\ image_1 = image_0

NextMV == plane_sweeping \/ multi_view_cell

SpecMV == InitMV /\ [][NextMV]_vars

(***************************************************************************)
(* Post-filter (notebook 07, the filtering cell and the smoothing cell).   *)
(* convolution_2d_nan is a collaborator outside the notebooks: it is taken *)
(* as the NaN-aware weighted average of the spec, the 1-D kernel of odd    *)
(* length applied along both axes (weight kernel[dr] * kernel[dc]).  Its   *)
(* arithmetic is not stated: the weights, the two sums and the quotient    *)
(* are float64 here, the valid neighbours taken in row-major order.  The   *)
(* depths it is given are float32, the box kernel is float32 and the       *)
(* Gaussian kernel float64.                                                *)
(***************************************************************************)
kernel_size == 25

limit == Float(1, 2)

\* the weight of a 1-D kernel of odd length at offset d from its centre, as
\* float64
kernel_weight(kernel, d) ==
    LET weight == kernel[d + ((Len(kernel) - 1) \div 2) + 1]
    IN  IF Len(weight) = 4 THEN weight ELSE float64(weight)

\* the positions of the image under the kernel centred on (r, c) that hold
\* a number
valid_neighbours(image, kernel, r, c) ==
    {q \in (1 .. Height(image)) \X (1 .. Width(image)) :
        /\ Abs(q[1] - r) <= (Len(kernel) - 1) \div 2
        /\ Abs(q[2] - c) <= (Len(kernel) - 1) \div 2
        /\ ~isnan(image[q[1]][q[2]])}

\* the first of a set of positions in row-major order
first_position(V) ==
    CHOOSE q \in V :
        \A p \in V : q[1] < p[1] \/ (q[1] = p[1] /\ q[2] <= p[2])

\* the sum of weight * depth and the sum of the weights over the positions
\* V, in row-major order, onto sums
RECURSIVE weighted_sums(_, _, _, _, _, _)
weighted_sums(image, kernel, r, c, V, sums) ==
    IF V = {} THEN sums
    ELSE LET q == first_position(V)
             weight == mul64(kernel_weight(kernel, q[1] - r),
                             kernel_weight(kernel, q[2] - c))
         IN  weighted_sums(image, kernel, r, c, V \ {q},
                 <<add64(sums[1],
                         mul64(weight, float64(image[q[1]][q[2]]))),
                   add64(sums[2], weight)>>)

\* oaf_vision_3d.convolve2d.convolution_2d_nan: the average of the valid
\* neighbours weighted by the kernel and divided by the sum of the weights
\* of the valid neighbours; NaN where there is none
convolution_2d_nan(image, kernel) ==
    Array([r \in 1 .. Height(image) |-> Array([c \in 1 .. Width(image) |->
        LET V == valid_neighbours(image, kernel, r, c)
            sums == weighted_sums(image, kernel, r, c, V, <<zero64, zero64>>)
        IN  IF V = {} THEN nan64 ELSE div64(sums[1], sums[2])])])

\* xyz[..., 2]
depth_channel(points) ==
    [r \in 1 .. Height(points) |-> [c \in 1 .. Width(points) |->
        points[r][c][3]]]

\* np.ones(kernel_size, dtype=np.float32)
ones(n) == [i \in 1 .. n |-> F(1)]

\* a rejection that takes the pixels on the threshold too
outlier_inclusive(z, smoothed, threshold) ==
    [r \in 1 .. Height(z) |-> [c \in 1 .. Width(z) |->
        ge64(abs64(sub64(float64(z[r][c]), smoothed[r][c])),
             float64(threshold))]]

\* invalid = np.abs(xyz_filtered[..., 2] - z_convolved) > limit, the
\* difference of the float32 depth and the smoothed depth taken in float64
outlier(z, smoothed, threshold) ==
    [r \in 1 .. Height(z) |-> [c \in 1 .. Width(z) |->
        gt64(abs64(sub64(float64(z[r][c]), smoothed[r][c])),
             float64(threshold))]]

\* xyz_filtered[invalid] = np.nan
invalidate_points(points, invalid) ==
    [r \in 1 .. Height(points) |-> [c \in 1 .. Width(points) |->
        IF invalid[r][c] THEN <<NaN, NaN, NaN>> ELSE points[r][c]]]

\* a rescale of the depth component alone
rescale_depth_only(points, new_z, old_z) ==
    [r \in 1 .. Height(points) |-> [c \in 1 .. Width(points) |->
        [k \in 1 .. 3 |->
            IF k = 3
            THEN single(mul64(float64(points[r][c][k]),
                              div64(new_z[r][c], float64(old_z[r][c]))))
            ELSE points[r][c][k]]]]

\* a rescale that writes the smoothed depth into the depth component
rescale_depth_assigned(points, new_z, old_z) ==
    [r \in 1 .. Height(points) |-> [c \in 1 .. Width(points) |->
        [k \in 1 .. 3 |->
            IF k = 3 THEN single(new_z[r][c])
            ELSE single(mul64(float64(points[r][c][k]),
                              div64(new_z[r][c], float64(old_z[r][c]))))]]]

\* xyz_filtered_smoothed *= z_filtered_smoothed[..., None] / xyz_filtered[..., 2:3]:
\* the quotient of the float64 smoothed depth and the float32 depth is
\* float64, and the in-place product of the float32 point and the quotient
\* is taken in float64 and stored as float32
rescale(points, new_z, old_z) ==
    [r \in 1 .. Height(points) |-> [c \in 1 .. Width(points) |->
        [k \in 1 .. 3 |->
            single(mul64(float64(points[r][c][k]),
                         div64(new_z[r][c], float64(old_z[r][c]))))]]]

\* the filtering cell, for a kernel size; it runs once the point map
\* xyz_multiple_plane_sweep exists, given directly or left by the multi-view
\* cell
filtering_cell ==
    /\ pc \in {"ready", "fused"}
    /\ xyz_multiple_plane_sweep # <<>>
    /\ \E size \in {1, 3, kernel_size}, threshold \in {limit} :
       \E smoothed \in {convolution_2d_nan(
                            depth_channel(xyz_multiple_plane_sweep),
                            ones(size))} :
          /\ args' = [kernel_size |-> size, limit |-> threshold,
                      kernel |-> ones(size)]
          /\ z_convolved' = smoothed
          /\ xyz_filtered' =
                invalidate_points(xyz_multiple_plane_sweep,
                    outlier(depth_channel(xyz_multiple_plane_sweep),
                            smoothed, threshold))
    /\ pc' = "filtered"
    /\ UNCHANGED <<image_0, image_1, error, disparity_error, fit, selected,
                   disparity, output_value, xyz, depths, single_pixel_error,
                   convoluted_error, xyz_multiple_plane_sweep_,
                   xyz_multiple_plane_sweep, z_filtered_smoothed,
                   xyz_filtered_smoothed>>

\* scipy's gaussian(M=7, std=1.5): the float64 numbers exp(-n^2 / 4.5) for
\* n = -3 .. 3, that is exp(-2), exp(-0.888...), exp(-0.222...) and 1
gaussian(M, std) ==
    LET w == <<<<1, 67108864, 0, -52>>,
               <<1, 107473154, 63358455, -53>>,
               <<1, 110357115, 11375042, -54>>,
               <<1, 72657576, 62882252, -55>>>>
    IN  [i \in 1 .. M |-> w[Abs(i - 4) + 1]]

\* kernel = gaussian(M=7, std=1.5); kernel /= kernel.sum(): the sum is taken
\* from the first weight to the last
gaussian_kernel ==
    LET kernel == gaussian(7, Float(3, 2))
        sum == accumulate64(kernel, 1, zero64)
    IN  [i \in 1 .. Len(kernel) |-> div64(kernel[i], sum)]

\* the smoothing cell
smoothing_cell ==
    /\ pc = "filtered"
    /\ \E kernel \in {gaussian_kernel} :
       \E smoothed \in {convolution_2d_nan(depth_channel(xyz_filtered),
                                           kernel)} :
          /\ args' = [args EXCEPT !.kernel = kernel]
          /\ z_filtered_smoothed' = smoothed
          /\ xyz_filtered_smoothed' =
                rescale(xyz_filtered, smoothed, depth_channel(xyz_filtered))
    /\ pc' = "smoothed"
    /\ UNCHANGED <<image_0, image_1, error, disparity_error, fit, selected,
                   disparity, output_value, xyz, depths, single_pixel_error,
                   convoluted_error, xyz_multiple_plane_sweep_,
                   xyz_multiple_plane_sweep, z_convolved, xyz_filtered>>

\* the depth maps the post-filter is run on (one row, or the same row
\* twice), and their point maps
DepthRows == [1 .. MaxMap -> {NaN} \cup {F(d) : d \in 1 .. MaxZ}]

DepthMaps == {<<z>> : z \in DepthRows} \cup {<<z, z>> : z \in DepthRows}

PointMaps == {scale_vectors(camera_vectors(z), z) : z \in DepthMaps}

InitFilter ==
    /\ pc = "ready"
    /\ image_0 = <<>>
    /\ image_1 = <<>>
    /\ args = <<>>
    /\ error = ""
    /\ disparity_error = <<>>
    /\ fit = <<>>
    /\ selected = <<>>
    /\ disparity = <<>>
    /\ output_value = <<>>
    /\ xyz = <<>>
    /\ depths = <<>>
    /\ single_pixel_error = <<>>
    /\ convoluted_error = <<>>
    /\ xyz_multiple_plane_sweep_ = <<>>
    /\ xyz_multiple_plane_sweep \in PointMaps
    /\ z_convolved = <<>>
    /\ xyz_filtered = <<>>
    /\ z_filtered_smoothed = <<>>
    /\ xyz_filtered_smoothed = <<>>

NextFilter == filtering_cell \/ smoothing_cell

SpecFilter == InitFilter /\ [][NextFilter]_vars

(***************************************************************************)
(* The cost aggregation as a function of a directly given per-pixel cost   *)
(* field of 3 x 3 pixels (notebook 06 lines 562-569, notebook 07 lines     *)
(* 570-577); a cost is NaN where plane sweeping sampled outside the        *)
(* secondary image.                                                        *)
(***************************************************************************)
CostFields == [1 .. 3 -> [1 .. 3 -> {NaN, F(0), F(1)}]]

aggregate_costs ==
    /\ pc = "ready"
    /\ \E block_size \in 1 .. MaxBlock :
          /\ args' = [block_size |-> block_size]
          /\ convoluted_error' = aggregate(single_pixel_error, block_size)
    /\ pc' = "returned"
    /\ UNCHANGED <<image_0, image_1, error, disparity_error, fit, selected,
                   disparity, output_value, xyz, depths, single_pixel_error,
                   xyz_multiple_plane_sweep_, xyz_multiple_plane_sweep,
                   z_convolved, xyz_filtered, z_filtered_smoothed,
                   xyz_filtered_smoothed>>

InitAgg ==
    /\ pc = "ready"
    /\ image_0 = <<>>
    /\ image_1 = <<>>
    /\ args = <<>>
    /\ error = ""
    /\ disparity_error = <<>>
    /\ fit = <<>>
    /\ selected = <<>>
    /\ disparity = <<>>
    /\ output_value = <<>>
    /\ xyz = <<>>
    /\ depths = <<>>
    /\ single_pixel_error \in CostFields
    /\ convoluted_error = <<>>
    /\ xyz_multiple_plane_sweep_ = <<>>
    /\ xyz_multiple_plane_sweep = <<>>
    /\ z_convolved = <<>>
    /\ xyz_filtered = <<>>
    /\ z_filtered_smoothed = <<>>
    /\ xyz_filtered_smoothed = <<>>

NextAgg == aggregate_costs

SpecAgg == InitAgg /\ [][NextAgg]_vars

(***************************************************************************)
(* The two functions on a secondary image whose shape differs from the     *)
(* shape of the reference image: narrower (down to one column) or with a   *)
(* second row.                                                             *)
(***************************************************************************)
Narrow(w, p, v) == <<[c \in 1 .. w |-> <<F(IF c = p THEN v ELSE 0)>>]>>

Tall(p, v) == <<Impulse(p, v)[1], Impulse(p, v)[1]>>

OtherShapes ==
    {Narrow(w, p, v) : w \in {1, MaxW - 1}, p \in 1 .. MaxW - 1, v \in 0 .. MaxPix}
        \cup {Tall(p, v) : p \in 1 .. MaxW, v \in 0 .. MaxPix}

InitShape ==
    /\ pc = "ready"
    /\ image_0 = Impulse(2, MaxPix)
    /\ image_1 \in OtherShapes
    /\ args = <<>>
    /\ error = ""
    /\ disparity_error = <<>>
    /\ fit = <<>>
    /\ selected = <<>>
    /\ disparity = <<>>
    /\ output_value = <<>>
    /\ xyz = <<>>
    /\ depths = <<>>
    /\ NoCells

NextShape == block_matching \/ plane_sweeping

SpecShape == InitShape /\ [][NextShape]_vars

(***************************************************************************)
(* The notebooks run in order on one image pair: block_matching (notebook  *)
(* 06) or plane_sweeping, then the multi-view cell, the filtering cell and *)
(* the smoothing cell (notebook 07).                                       *)
(***************************************************************************)
NextPipeline ==
    \/ block_matching
    \/ plane_sweeping
    \/ multi_view_cell
    \/ filtering_cell
    \/ smoothing_cell

\* every reference image, against a secondary image that shows the feature
InitPipeline == Init /\ image_1 = Impulse(3, 1)

SpecPipeline == InitPipeline /\ [][NextPipeline]_vars

(***************************************************************************)
(* The block matching cell that precedes block_matching in notebook 06     *)
(* (lines 279-310): the same steps written out in a cell, on the range     *)
(* expected_disparity of the data set, with the sum of absolute            *)
(* differences and the window kernel_size of the cell.                     *)
(***************************************************************************)
kernel_size_06 == 29

\* the four invalidation statements that end the cell, taken from
\* expected_disparity itself
invalidate_cell(chosen, expected_disparity) ==
    invalidate_extrema(
        invalidate_right(invalidate_left(chosen, max_abs(expected_disparity)),
                         max_abs(expected_disparity)),
        F(IntMin(Range(expected_disparity))),
        F(IntMax(Range(expected_disparity))))

block_matching_cell ==
    /\ pc = "ready"
    /\ \E lo \in -MaxDisp .. 0, hi \in 0 .. MaxDisp,
          size \in {1, MaxBlock, kernel_size_06} :
       \E a \in {[expected_disparity |-> <<lo, hi>>, kernel_size |-> size]},
          disparities \in {arange(lo, hi + 1)} :
       \E volume \in {cost_volume(image_0, image_1, disparities, size,
                                  SUM_OF_ABSOLUTE_DIFFERENCE)} :
       \E chosen \in {select_discrete(FloatSeq(disparities), volume)} :
          Return(a, volume, <<>>, chosen, invalidate_cell(chosen, <<lo, hi>>))
    /\ UNCHANGED <<image_0, image_1>>

\* the intensity step of the images of the cell: a mean over kernel_size_06
\* by kernel_size_06 pixels of such a step is a float32 cost of at least 2^-7
CellLevel == 8

\* every reference image, against a secondary image that shows the feature
InitCell ==
    /\ pc = "ready"
    /\ image_0 \in {Impulse(p, CellLevel * v) : p \in 1 .. MaxW, v \in 0 .. MaxPix}
    /\ image_1 = Impulse(3, CellLevel)
    /\ args = <<>>
    /\ error = ""
    /\ disparity_error = <<>>
    /\ fit = <<>>
    /\ selected = <<>>
    /\ disparity = <<>>
    /\ output_value = <<>>
    /\ xyz = <<>>
    /\ depths = <<>>
    /\ NoCells

NextCell == block_matching_cell \/ block_matching

SpecCell == InitCell /\ [][NextCell]_vars

(***************************************************************************)
(* Properties.  The pixels of the map of the current state, and what the   *)
(* properties say about one pixel, are stated without the operators of the *)
(* model where a direct statement exists.                                  *)
(***************************************************************************)
Pixels(map) == {<<r, c>> : r \in 1 .. Height(map), c \in 1 .. Width(map)}

\* position i holds the first minimum of the vector v
IsFirstMin(v, i) ==
    /\ \A j \in 1 .. Len(v) : fle(v[i], v[j])
    /\ \A j \in 1 .. i - 1 : flt(v[i], v[j])

\* the axis of the block_matching call that ran
CallAxis == arange(args.disparity_range[1], args.disparity_range[2])

\* the largest absolute value on that axis
CallM ==
    CHOOSE m \in 0 .. MaxDisp + 2 :
        /\ \E i \in DOMAIN CallAxis : Abs(CallAxis[i]) = m
        /\ \A i \in DOMAIN CallAxis : Abs(CallAxis[i]) <= m

\* column c is outside the border-invalidation zone of a map of width w
Interior(c, w) == CallM < c /\ c <= w - CallM

----
\* the axis of the plane_sweeping call that ran
SweepAxis == depths

\* the hypothesis axis, as floats, of the call that ran
HypothesisAxis ==
    IF "depth_range" \in DOMAIN args THEN SweepAxis ELSE FloatSeq(CallAxis)

\* position i holds the first occurrence of the least cost of the vector v,
\* the least cost being the least of the entries that are numbers
IsLeastCost(v, i) ==
    /\ ~isnan(v[i])
    /\ \A j \in 1 .. Len(v) : ~isnan(v[j]) => fle(v[i], v[j])
    /\ \A j \in 1 .. i - 1 : ~isnan(v[j]) => flt(v[i], v[j])

\* C1: without sub-pixel fit, block_matching and plane_sweeping select at
\* every pixel the hypothesis of minimum aggregated cost, the one of lowest
\* axis index when several hypotheses share that minimum.
C1_SelectsMinimum ==
    (pc = "returned" /\ ~args.subpixel_fit) =>
        \A p \in Pixels(selected) :
            LET v == Column(disparity_error, p[1], p[2])
            IN  \A i \in 1 .. Len(v) :
                    IsLeastCost(v, i) => selected[p[1]][p[2]] = HypothesisAxis[i]

----
\* C2: in the map block_matching returns, every pixel of the M leftmost and
\* of the M rightmost columns is NaN, M being the largest absolute value on
\* the disparity axis.
C2_BorderInvalid ==
    pc = "returned" =>
        \A p \in Pixels(disparity) :
            (p[2] <= CallM \/ p[2] > Width(disparity) - CallM)
                => isnan(disparity[p[1]][p[2]])

\* a call on the axis -2 .. 1 (M = 2) whose border columns are NaN while the
\* one column between them holds a disparity
C2_Witness ==
    /\ pc = "returned"
    /\ args.disparity_range = <<-2, 2>>
    /\ CallM = 2
    /\ \E p \in Pixels(disparity) :
          Interior(p[2], Width(disparity)) /\ ~isnan(disparity[p[1]][p[2]])
    /\ \A p \in Pixels(disparity) :
          ~Interior(p[2], Width(disparity)) => isnan(disparity[p[1]][p[2]])

----
\* C3: in every returned map, with or without sub-pixel fit, a pixel whose
\* raw minimum-cost hypothesis (the first minimum of its cost column) is the
\* first or the last entry of the axis is NaN.
C3_ExtremumInvalid ==
    pc = "returned" =>
        \A p \in Pixels(disparity) :
            LET v == Column(disparity_error, p[1], p[2])
            IN  (IsFirstMin(v, 1) \/ IsFirstMin(v, Len(v)))
                    => isnan(disparity[p[1]][p[2]])

\* C3 restricted to the calls without sub-pixel fit, where it holds
C3_ExtremumInvalidDiscrete ==
    (pc = "returned" /\ ~args.subpixel_fit) =>
        \A p \in Pixels(disparity) :
            LET v == Column(disparity_error, p[1], p[2])
            IN  (IsFirstMin(v, 1) \/ IsFirstMin(v, Len(v)))
                    => isnan(disparity[p[1]][p[2]])

----
\* image_0 shows image_1 moved d columns to the right, the columns leaving
\* the image on one side entering it on the other
ShiftedBy(d) ==
    /\ Height(image_0) = Height(image_1)
    /\ Width(image_0) = Width(image_1)
    /\ \A r \in 1 .. Height(image_0), c \in 1 .. Width(image_0) :
          image_0[r][c] = image_1[r][((c - 1 - d) % Width(image_1)) + 1]

\* C4 as stated: if image_0 is image_1 shifted horizontally by a disparity d
\* of the axis, block_matching without sub-pixel fit returns exactly d at
\* every pixel outside the border-invalidation zone.
C4_ExactOnShift ==
    (pc = "returned" /\ ~args.subpixel_fit) =>
        \A i \in DOMAIN CallAxis :
            ShiftedBy(CallAxis[i]) =>
                \A p \in Pixels(disparity) :
                    Interior(p[2], Width(disparity))
                        => disparity[p[1]][p[2]] = F(CallAxis[i])

\* C4 amended: if image_0 is image_1 shifted circularly by a disparity d
\* that is neither the first nor the last value of the axis, block_matching
\* without sub-pixel fit returns exactly d at every pixel outside the
\* border-invalidation zone at which no lower disparity of the axis has an
\* aggregated cost of zero too.
C4_ExactOnShiftUnambiguous ==
    (pc = "returned" /\ ~args.subpixel_fit) =>
        \A i \in DOMAIN CallAxis :
            (ShiftedBy(CallAxis[i]) /\ 1 < i /\ i < Len(CallAxis)) =>
                \A p \in Pixels(disparity) :
                    ( /\ Interior(p[2], Width(disparity))
                      /\ \A j \in 1 .. i - 1 :
                            disparity_error[j][p[1]][p[2]] # F(0) )
                        => disparity[p[1]][p[2]] = F(CallAxis[i])

\* a shifted pair with a feature: the pixel showing it is matched exactly, at
\* a disparity other than 0 and with neighbours inside the block
C4_Witness ==
    /\ pc = "returned"
    /\ ~args.subpixel_fit
    /\ args.block_size = 3
    /\ \E i \in DOMAIN CallAxis :
          /\ CallAxis[i] # 0
          /\ 1 < i /\ i < Len(CallAxis)
          /\ ShiftedBy(CallAxis[i])
          /\ image_0 # image_1
          /\ \E p \in Pixels(disparity) :
                /\ Interior(p[2], Width(disparity))
                /\ \A j \in 1 .. i - 1 : disparity_error[j][p[1]][p[2]] # F(0)
                /\ disparity[p[1]][p[2]] = F(CallAxis[i])

----
\* C10: a call with a cost_function that is neither SUM_OF_ABSOLUTE_DIFFERENCE
\* nor SUM_OF_SQUARED_DIFFERENCE ends with the invalid-cost-function error,
\* whatever the disparity range, and returns no map.
C10_InvalidCostFunction ==
    (pc # "ready" /\ args.cost_function \notin CostFunction) =>
        /\ pc = "raised"
        /\ error = "ValueError: Invalid cost function"
        /\ disparity = <<>>

\* C10 restricted to the ranges that hold at least one disparity
C10_InvalidCostFunctionNonEmpty ==
    (pc # "ready" /\ args.cost_function \notin CostFunction
        /\ args.disparity_range[1] < args.disparity_range[2]) =>
        /\ pc = "raised"
        /\ error = "ValueError: Invalid cost function"
        /\ disparity = <<>>

----
\* The fit of the current state at pixel p, and its three cost samples as the
\* properties read them: the curvature 2a = f_0 + f_2 - 2 f_1 and the slope
\* 2b = f_2 - f_0 of the samples, computed from the samples alone.
FitAt(p) == fit[p[1]][p[2]]

TwiceA(t) == fsub(fadd(t.f_0, t.f_2), fmul(F(2), t.f_1))

TwiceB(t) == fsub(t.f_2, t.f_0)

\* x in the precision of the fit that ran: find_subpixel_disparities_poly_2
\* works on float32, the fit on a value axis is exact up to the value
InFitPrecision(x) == IF "disparities" \in DOMAIN args THEN float32(x) ELSE x

\* the largest magnitude among the three samples
LargestSample(t) ==
    CHOOSE m \in {fabs(t.f_0), fabs(t.f_1), fabs(t.f_2)} :
        \A x \in {fabs(t.f_0), fabs(t.f_1), fabs(t.f_2)} : fle(x, m)

\* C5: whenever the curvature a of the three sampled costs is 0 (the a the
\* code computes, which is 0 wherever f_0 + f_2 = 2 f_1), the result of
\* find_subpixel_disparities_poly_2 at the pixel is NaN, the divisor used was
\* not 0 (it had been replaced by NaN) and the call did not raise.
C5_DegenerateRejected ==
    /\ pc = "returned" =>
          \A p \in Pixels(disparity) :
              /\ TwiceA(FitAt(p)) = F(0) => FitAt(p).a = F(0)
              /\ FitAt(p).a = F(0) =>
                    /\ isnan(disparity[p[1]][p[2]])
                    /\ ~feq(FitAt(p).denom, F(0))
    /\ pc = "raised" => Len(disparity_error) < 2

\* the flat triple f_0 = f_1 = f_2 > 0 on an axis of at least three values,
\* rejected
C5_Witness ==
    /\ pc = "returned"
    /\ "disparities" \in DOMAIN args
    /\ Len(disparity_error) >= 3
    /\ \E p \in Pixels(disparity) :
          /\ FitAt(p).f_0 = FitAt(p).f_1
          /\ FitAt(p).f_1 = FitAt(p).f_2
          /\ FitAt(p).f_1 # F(0)
          /\ isnan(disparity[p[1]][p[2]])

----
\* C6: with a # 0, the pixel is rejected (NaN) exactly when |delta| > 1 for
\* delta = -b / (2a); |delta| <= 1, the boundary |delta| = 1 included, is
\* accepted.  |delta| > 1 is stated on the a and b of the fit: |b| > |2a|
\* (1 is a float32 number, so rounding the quotient does not cross it).
C6_AcceptanceThreshold ==
    pc = "returned" =>
        \A p \in Pixels(disparity) :
            FitAt(p).a # F(0) =>
                (isnan(disparity[p[1]][p[2]])
                    <=> fgt(fabs(FitAt(p).b),
                            fmul(F(2), fabs(FitAt(p).a))))

\* a fit on the boundary |delta| = 1 that is accepted
C6_Witness ==
    /\ pc = "returned"
    /\ "disparities" \in DOMAIN args
    /\ \E p \in Pixels(disparity) :
          /\ FitAt(p).a # F(0)
          /\ fabs(FitAt(p).b) = fmul(F(2), fabs(FitAt(p).a))
          /\ fabs(FitAt(p).delta) = F(1)
          /\ ~isnan(disparity[p[1]][p[2]])

----
\* C7: for a # 0, a and b are the quadratic and linear coefficients of the
\* parabola y = a x^2 + b x + c through (-1, f_0), (0, f_1), (1, f_2), and
\* delta = -b / (2a) is where its derivative 2 a x + b vanishes; the triple
\* (4, 1, 4) gives a = 3, b = 0, delta = 0.  The equalities are those of
\* the precision of the fit: the parabola of a and b passes the samples
\* within 2^-22 of the largest of them (float32 rounding of the closed
\* form), exactly where no operation rounds, and delta is the quotient
\* -b / (2a) in that precision.
C7_ParabolaClosedForm ==
    pc = "returned" =>
        \A p \in Pixels(disparity) :
            LET t == FitAt(p)
            IN  t.a # F(0) =>
                  /\ fle(fmul(fabs(fsub(fadd(fsub(t.a, t.b), t.f_1), t.f_0)),
                               F(4194304)),
                          LargestSample(t))
                  /\ fle(fmul(fabs(fsub(fadd(fadd(t.a, t.b), t.f_1), t.f_2)),
                               F(4194304)),
                          LargestSample(t))
                  /\ float32(fadd(t.f_0, t.f_2)) = fadd(t.f_0, t.f_2) =>
                        /\ fadd(fsub(t.a, t.b), t.f_1) = t.f_0
                        /\ fadd(fadd(t.a, t.b), t.f_1) = t.f_2
                  /\ t.delta_fit
                        = InFitPrecision(fdiv(fneg(t.b), fmul(F(2), t.a)))
                  /\ (t.f_0 = F(4) /\ t.f_1 = F(1) /\ t.f_2 = F(4)) =>
                        (t.a = F(3) /\ t.b = F(0) /\ t.delta = F(0))

\* the triple (4, 1, 4) fitted, with its result on the axis value itself
C7_Witness ==
    /\ pc = "returned"
    /\ "disparities" \in DOMAIN args
    /\ \E p \in Pixels(disparity) :
          LET t == FitAt(p)
          IN  /\ t.f_0 = F(4) /\ t.f_1 = F(1) /\ t.f_2 = F(4)
              /\ t.a = F(3) /\ t.b = F(0) /\ t.delta = F(0)
              /\ disparity[p[1]][p[2]] = F(args.disparities[t.idx + 1])

----
\* C8 as stated: the triple (1, 0, 4) yields delta = -0.5, accepted.
C8_OffsetMinusHalf ==
    pc = "returned" =>
        \A p \in Pixels(disparity) :
            LET t == FitAt(p)
            IN  (t.f_0 = F(1) /\ t.f_1 = F(0) /\ t.f_2 = F(4)) =>
                    (t.delta = Float(-1, 2) /\ ~isnan(disparity[p[1]][p[2]]))

\* C8 amended: the triple (1, 0, 4) yields a = 2.5, b = 1.5 and the offset
\* delta = -1.5 / (2 * 2.5) = -0.3 (in float32 the number nearest to it),
\* which lies within [-1, 1] and is accepted.
C8_OffsetMinusThreeTenths ==
    pc = "returned" =>
        \A p \in Pixels(disparity) :
            LET t == FitAt(p)
            IN  (t.f_0 = F(1) /\ t.f_1 = F(0) /\ t.f_2 = F(4)) =>
                    /\ t.a = Float(5, 2)
                    /\ t.b = Float(3, 2)
                    /\ t.delta = InFitPrecision(Float(-3, 10))
                    /\ fle(fabs(t.delta), F(1))
                    /\ ~isnan(disparity[p[1]][p[2]])

\* the triple (1, 0, 4) fitted by find_subpixel_disparities_poly_2
C8_Witness ==
    /\ pc = "returned"
    /\ "disparities" \in DOMAIN args
    /\ \E p \in Pixels(disparity) :
          LET t == FitAt(p)
          IN  /\ t.f_0 = F(1) /\ t.f_1 = F(0) /\ t.f_2 = F(4)
              /\ t.delta = float32(Float(-3, 10))
              /\ t.delta # Float(-3, 10)
              /\ disparity[p[1]][p[2]]
                    = float32(fadd(F(args.disparities[t.idx + 1]), t.delta))

----
\* The axis handed to the fit that ran, as floats, and its spacing taken
\* over the whole axis.
FitAxis ==
    IF "values" \in DOMAIN args THEN args.values ELSE FloatSeq(args.disparities)

FitSpacing ==
    fdiv(fsub(FitAxis[Len(FitAxis)], FitAxis[1]), F(Len(FitAxis) - 1))

\* the clipped minimum-cost position (1-based) of a cost column of length >= 3
ClippedMin(v) ==
    CHOOSE q \in 2 .. Len(v) - 1 :
        \E i \in 1 .. Len(v) :
            /\ IsFirstMin(v, i)
            /\ q = IF i < 2 THEN 2 ELSE IF i > Len(v) - 1 THEN Len(v) - 1 ELSE i

\* C9: at every pixel where the fit is accepted, the value produced is
\* axis[idx] + delta * (spacing of the axis), idx being the clipped
\* minimum-cost index and delta = -b / (2a) the offset in samples, the
\* value being a float32 number.
C9_RefinedValue ==
    (pc = "returned" /\ Len(disparity_error) >= 3) =>
        \A p \in Pixels(disparity) :
            LET t == FitAt(p)
                q == ClippedMin(Column(disparity_error, p[1], p[2]))
            IN  ~isnan(disparity[p[1]][p[2]]) =>
                    /\ t.idx + 1 = q
                    /\ t.delta
                          = InFitPrecision(fdiv(fneg(t.b), fmul(F(2), t.a)))
                    /\ disparity[p[1]][p[2]]
                          = float32(fadd(FitAxis[q],
                                InFitPrecision(fmul(t.delta, FitSpacing))))

----
\* C11: a call of block_matching with a block_size that is less than 1 or
\* even ends with an error and returns no map.
C11_WindowSizeValidated ==
    (pc # "ready" /\ "cost_function" \in DOMAIN args
        /\ (args.block_size < 1 \/ args.block_size % 2 = 0)) =>
        /\ pc = "raised"
        /\ disparity = <<>>

----
\* C12: a call of block_matching whose disparity range yields fewer than 3
\* hypotheses ends with an error, and no call reads a cost slice at a
\* negative (wrapped-around) index or at an index past the volume.
C12_AxisLengthValidated ==
    /\ (pc # "ready" /\ "cost_function" \in DOMAIN args /\ Len(CallAxis) < 3)
            => (pc = "raised" /\ disparity = <<>>)
    /\ (pc = "returned" /\ "cost_function" \in DOMAIN args
            /\ args.subpixel_fit) =>
            \A p \in Pixels(disparity) :
                /\ 0 <= FitAt(p).idx - 1
                /\ FitAt(p).idx + 1 <= Len(disparity_error) - 1

----
\* the reference and the secondary image differ in rows or in columns
ShapesDiffer ==
    Height(image_0) # Height(image_1) \/ Width(image_0) # Width(image_1)

\* C13: a call of block_matching or plane_sweeping on a reference and a
\* secondary image of different spatial dimensions ends with an error and
\* produces no result, whatever the two shapes are.
C13_ShapeValidated ==
    (pc # "ready" /\ ShapesDiffer) =>
        /\ pc = "raised"
        /\ disparity = <<>>
        /\ xyz = <<>>

----
\* C14: plane_sweeping never ends with an error, and in the result, with
\* sub-pixel fit on or off, every pixel whose aggregated cost is NaN at some
\* hypothesis (a reprojected sample of its window fell outside the secondary
\* image) has a NaN depth and a point of three NaN components.
C14_OutOfBoundsInvalid ==
    ("depth_range" \in DOMAIN args) =>
        /\ pc # "raised"
        /\ pc = "returned" =>
              \A p \in Pixels(output_value) :
                  (\E i \in DOMAIN disparity_error :
                        isnan(disparity_error[i][p[1]][p[2]]))
                    => /\ isnan(output_value[p[1]][p[2]])
                       /\ \A k \in 1 .. 3 : isnan(xyz[p[1]][p[2]][k])

----
\* position q lies in the window of length k that mode="same" centres on
\* position p (for an even k the window reaches one further to the left)
InWindow(p, q, k) == p - (k \div 2) <= q /\ q <= p + ((k - 1) \div 2)

\* some per-pixel cost in the block_size x block_size window of pixel p is NaN
NaNInWindow(p) ==
    \E q \in Pixels(single_pixel_error) :
        /\ InWindow(p[1], q[1], args.block_size)
        /\ InWindow(p[2], q[2], args.block_size)
        /\ isnan(single_pixel_error[q[1]][q[2]])

\* C15: the aggregated cost at a pixel is NaN exactly when at least one
\* per-pixel cost inside that pixel's block_size x block_size window is NaN.
C15_NaNPropagates ==
    (pc = "returned" /\ convoluted_error # <<>>) =>
        \A p \in Pixels(single_pixel_error) :
            isnan64(convoluted_error[p[1]][p[2]]) <=> NaNInWindow(p)

\* a window of 3 x 3: a pixel with a valid cost of its own is NaN after the
\* aggregation because of a NaN in another row and column of its window,
\* while another pixel of the field, with no NaN in its window, is a number
C15_Witness ==
    /\ pc = "returned"
    /\ convoluted_error # <<>>
    /\ args.block_size = 3
    /\ ~isnan(single_pixel_error[2][2])
    /\ isnan(single_pixel_error[1][1])
    /\ isnan64(convoluted_error[2][2])
    /\ \E p \in Pixels(single_pixel_error) :
          ~NaNInWindow(p) /\ convoluted_error[p[1]][p[2]] # zero64
                          /\ ~isnan64(convoluted_error[p[1]][p[2]])

----
\* C16: multi_camera_plane_sweeping called with exactly one secondary camera
\* returns the point map plane_sweeping returned for the same reference
\* camera, secondary camera, depth range, step size, block size and
\* sub-pixel flag.
C16_SingleCameraFusion ==
    (pc = "fused" /\ args.secondary_cameras = 1) =>
        /\ xyz_multiple_plane_sweep_ # None
        /\ xyz_multiple_plane_sweep_ = xyz

----
\* The depth of the point at pixel p of a point map, and the distance
\* between the raw and the smoothed depth at p in the filtering cell.
ZOf(points, p) == points[p[1]][p[2]][3]

Deviation(p) ==
    abs64(sub64(float64(ZOf(xyz_multiple_plane_sweep, p)),
                z_convolved[p[1]][p[2]]))

\* C17: after the filtering cell, a pixel whose raw depth differs from the
\* NaN-aware smoothed depth by strictly more than the threshold has a point
\* of three NaN components, and a pixel whose difference is at most the
\* threshold keeps its point unchanged.
C17_OutlierRejection ==
    (pc \in {"filtered", "smoothed"}) =>
        \A p \in Pixels(xyz_filtered) :
            /\ gt64(Deviation(p), float64(args.limit))
                  => \A k \in 1 .. 3 : isnan(xyz_filtered[p[1]][p[2]][k])
            /\ le64(Deviation(p), float64(args.limit))
                  => xyz_filtered[p[1]][p[2]]
                        = xyz_multiple_plane_sweep[p[1]][p[2]]

\* a map with a pixel exactly on the threshold, kept with its depth, and a
\* pixel above it, valid before the cell and NaN after it
C17_Witness ==
    /\ pc = "filtered"
    /\ \E p \in Pixels(xyz_filtered) :
          /\ Deviation(p) = float64(args.limit)
          /\ ~isnan(ZOf(xyz_filtered, p))
          /\ xyz_filtered[p[1]][p[2]] = xyz_multiple_plane_sweep[p[1]][p[2]]
    /\ \E p \in Pixels(xyz_filtered) :
          /\ gt64(Deviation(p), float64(args.limit))
          /\ ~isnan(ZOf(xyz_multiple_plane_sweep, p))
          /\ isnan(ZOf(xyz_filtered, p))

----
\* The float64 product of two float32 numbers, which is their product.
Times(x, y) == mul64(float64(x), float64(y))

\* the float64 numbers v and w differ by at most 2^-n of the magnitude of w
Within(v, w, n) == le64(abs64(sub64(v, w)), ldexp64(abs64(w), -n))

\* C18 as stated: after the smoothing cell, every valid point is its
\* pre-smoothing point multiplied by the one scalar new depth / old depth:
\* its depth is the smoothed depth and new_x * old_z = old_x * new_z,
\* new_y * old_z = old_y * new_z.
C18_RayPreservingRescale ==
    pc = "smoothed" =>
        \A p \in Pixels(xyz_filtered_smoothed) :
            LET new == xyz_filtered_smoothed[p[1]][p[2]]
                old == xyz_filtered[p[1]][p[2]]
                zs  == z_filtered_smoothed[p[1]][p[2]]
            IN  ~isnan(new[3]) =>
                  /\ float64(new[3]) = zs
                  /\ Times(new[1], old[3]) = Times(old[1], new[3])
                  /\ Times(new[2], old[3]) = Times(old[2], new[3])

\* C18, up to the rounding of the float32 point map: after the smoothing
\* cell, every valid point is its pre-smoothing point multiplied by the one
\* scalar new depth / old depth and stored as float32: its depth is within
\* 2^-23 (relative) of the smoothed depth, and new_x * old_z is within
\* 2^-22 (relative) of old_x * new_z, new_y * old_z of old_y * new_z.
C18_RayPreservingRescaleRounded ==
    pc = "smoothed" =>
        \A p \in Pixels(xyz_filtered_smoothed) :
            LET new == xyz_filtered_smoothed[p[1]][p[2]]
                old == xyz_filtered[p[1]][p[2]]
                zs  == z_filtered_smoothed[p[1]][p[2]]
            IN  ~isnan(new[3]) =>
                  /\ Within(float64(new[3]), zs, 23)
                  /\ Within(Times(new[1], old[3]), Times(old[1], new[3]), 22)
                  /\ Within(Times(new[2], old[3]), Times(old[2], new[3]), 22)

\* a valid point off the optical axis in x and in y whose depth the
\* smoothing changed to a number that is not a float32 number: the stored
\* depth is the float32 next to it, and the cross products differ
C18_Witness ==
    /\ pc = "smoothed"
    /\ \E p \in Pixels(xyz_filtered_smoothed) :
          LET new == xyz_filtered_smoothed[p[1]][p[2]]
              old == xyz_filtered[p[1]][p[2]]
              zs  == z_filtered_smoothed[p[1]][p[2]]
          IN  /\ ~isnan(new[3])
              /\ new[3] # old[3]
              /\ new[1] # F(0)
              /\ new[2] # F(0)
              /\ float64(new[3]) # zs
              /\ Within(float64(new[3]), zs, 23)
              /\ Times(new[1], old[3]) # Times(old[1], new[3])
              /\ Within(Times(new[1], old[3]), Times(old[1], new[3]), 22)

----
\* the point the reference ray (x, y, 1) of pixel p reaches at a depth, with
\* (x, y) the undistorted normalized coordinates of the pixel: the products
\* are those of float32 numbers, the depth is kept as it is
RayPoint(p, depth) ==
    <<mul32(undistorted_normalized_pixels(image_0)[p[1]][p[2]][1], depth),
      mul32(undistorted_normalized_pixels(image_0)[p[1]][p[2]][2], depth),
      depth>>

\* C20: whenever plane_sweeping returns, the point of every pixel is the
\* reference ray (x, y, 1) multiplied by the selected depth of the pixel (as
\* float32 numbers are multiplied): the third component of a valid point is
\* that depth, and a pixel whose depth is NaN has three NaN components
C20_PointMapDerivation ==
    (pc = "returned" /\ "depth_range" \in DOMAIN args)
        => /\ Height(xyz) = Height(output_value)
           /\ Width(xyz) = Width(output_value)
           /\ \A p \in Pixels(output_value) :
                 /\ Len(xyz[p[1]][p[2]]) = 3
                 /\ ~isnan(output_value[p[1]][p[2]])
                       => /\ xyz[p[1]][p[2]]
                               = RayPoint(p, output_value[p[1]][p[2]])
                          /\ xyz[p[1]][p[2]][3] = output_value[p[1]][p[2]]
                 /\ isnan(output_value[p[1]][p[2]])
                       => \A i \in 1 .. 3 : isnan(xyz[p[1]][p[2]][i])

\* a returned point map with a valid point off the optical axis, at a depth
\* other than one, next to a pixel that has no depth
C20_Witness ==
    /\ pc = "returned"
    /\ "depth_range" \in DOMAIN args
    /\ \E p \in Pixels(output_value) :
          /\ p[2] > 1
          /\ ~isnan(output_value[p[1]][p[2]])
          /\ output_value[p[1]][p[2]] # F(1)
          /\ xyz[p[1]][p[2]][1] # F(0)
    /\ \E p \in Pixels(output_value) :
          /\ p[2] > 1
          /\ isnan(output_value[p[1]][p[2]])

----
\* The pixels of a field in the k x k window centred on pixel p (k odd), and
\* the sum of the costs at the k * k positions of the window: a position
\* outside the field counts 0.
BoxWindow(field, p, k) ==
    {q \in Pixels(field) : /\ Abs(q[1] - p[1]) <= (k - 1) \div 2
                           /\ Abs(q[2] - p[2]) <= (k - 1) \div 2}

BoxSum(field, p, k) ==
    total([i \in 1 .. k * k |->
        LET r == p[1] - ((k - 1) \div 2) + ((i - 1) \div k)
            c == p[2] - ((k - 1) \div 2) + ((i - 1) % k)
        IN  IF <<r, c>> \in Pixels(field) THEN field[r][c] ELSE F(0)])

\* the float64 v is the rational number x itself (NaN for NaN)
Exactly(v, x) ==
    IF isnan(x) THEN isnan64(v)
    ELSE /\ x[2] = 2 ^ (BitLen(x[2]) - 1)
         /\ v = float64(x)

\* the float64 v lies within n * 2^-53 of the rational number x >= 0,
\* relative to x, x being read as the float64 nearest to it (NaN for NaN)
Near(v, x, n) ==
    IF isnan(x) THEN isnan64(v)
    ELSE LET nearest == div64(float64(F(x[1])), float64(F(x[2])))
         IN  le64(abs64(sub64(v, nearest)),
                  mul64(nearest, ldexp64(float64(F(n)), -53)))

\* the field of the column pass followed by the row pass
opposite_order(field, block_size) ==
    convolve_rows(convolve_cols(asarray_float64(field), block_size),
                  block_size)

\* C22: for an odd block_size k, the row pass followed by the column pass
\* gives at every pixel the sum of the per-pixel costs in the k x k window
\* centred on it, positions outside the image counting 0, divided by k * k
\* at the edges too; the column pass followed by the row pass gives the same
\* field.
C22_SeparableAggregation ==
    (pc = "returned" /\ convoluted_error # <<>> /\ args.block_size % 2 = 1) =>
        /\ \A p \in Pixels(single_pixel_error) :
              Exactly(convoluted_error[p[1]][p[2]],
                      fdiv(BoxSum(single_pixel_error, p, args.block_size),
                           F(args.block_size * args.block_size)))
        /\ opposite_order(single_pixel_error, args.block_size)
              = convoluted_error

\* C22 as it holds of the float64 passes: the field of either order is, at
\* every pixel, within (2k + 6) * 2^-53 of the float64 nearest to that
\* quotient, relative to it, and NaN exactly where the window holds a NaN;
\* for k = 1 both are the costs themselves.
C22_SeparableAggregationRounded ==
    (pc = "returned" /\ convoluted_error # <<>> /\ args.block_size % 2 = 1) =>
        \A field \in {convoluted_error,
                      opposite_order(single_pixel_error, args.block_size)} :
            \A p \in Pixels(single_pixel_error) :
                /\ Near(field[p[1]][p[2]],
                        fdiv(BoxSum(single_pixel_error, p, args.block_size),
                             F(args.block_size * args.block_size)),
                        2 * args.block_size + 6)
                /\ args.block_size = 1
                      => field[p[1]][p[2]]
                            = float64(single_pixel_error[p[1]][p[2]])

\* a 3 x 3 window on a field of numbers that is not constant: the corner
\* pixel, with five positions of its window outside the image, holds the
\* sum of the four inside divided by 9 as near as float64 has it, and the
\* centre pixel differs between the two orders of the passes
C22_Witness ==
    /\ pc = "returned"
    /\ convoluted_error # <<>>
    /\ args.block_size = 3
    /\ \A p \in Pixels(single_pixel_error) :
          ~isnan(single_pixel_error[p[1]][p[2]])
    /\ \A p \in BoxWindow(single_pixel_error, <<1, 1>>, 3) :
          single_pixel_error[p[1]][p[2]] = F(1)
    /\ single_pixel_error[1][3] = F(0)
    /\ single_pixel_error[3][1] = F(1)
    /\ single(convoluted_error[1][1]) = float32(Float(4, 9))
    /\ convoluted_error[2][2] # convoluted_error[1][1]
    /\ opposite_order(single_pixel_error, 3)[2][2] # convoluted_error[2][2]

----
\* C24: on a cost volume of N >= 3 slices find_subpixel_disparities_poly_2
\* returns, and at every pixel its index idx is the minimum-cost index moved
\* into [1, N - 2], so the indices idx - 1, idx, idx + 1 lie in [0, N - 1]
\* and the three samples are the costs at exactly these indices, also where
\* the raw minimum is at index 0 or N - 1.
C24_NeighbourIndicesInRange ==
    (pc # "ready" /\ "disparities" \in DOMAIN args
        /\ Len(disparity_error) >= 3) =>
        /\ pc = "returned"
        /\ \A p \in Pixels(disparity) :
              LET t == FitAt(p)
                  v == Column(disparity_error, p[1], p[2])
                  N == Len(disparity_error)
              IN  /\ IsFirstMin(v, t.raw + 1)
                  /\ 1 <= t.idx /\ t.idx <= N - 2
                  /\ t.raw < 1 => t.idx = 1
                  /\ t.raw > N - 2 => t.idx = N - 2
                  /\ (1 <= t.raw /\ t.raw <= N - 2) => t.idx = t.raw
                  /\ 0 <= t.idx - 1 /\ t.idx + 1 <= N - 1
                  /\ t.f_0 = v[t.idx]
                  /\ t.f_1 = v[t.idx + 1]
                  /\ t.f_2 = v[t.idx + 2]

\* a volume of MaxN slices whose least cost is in the first slice: the
\* index is moved to 1 and the samples are the costs at indices 0, 1, 2
C24_Witness ==
    /\ pc = "returned"
    /\ "disparities" \in DOMAIN args
    /\ Len(disparity_error) = MaxN
    /\ \E p \in Pixels(disparity) :
          /\ FitAt(p).raw = 0
          /\ FitAt(p).idx = 1
          /\ FitAt(p).f_0 = disparity_error[1][p[1]][p[2]]
          /\ flt(FitAt(p).f_0, FitAt(p).f_1)

----
\* C25: in the map block_matching returns for images of width W, every pixel
\* that holds a number has, for every disparity d of the axis, its source
\* column x - d inside [0, W - 1]: the circular shift by d hands it the
\* sample of image_1 at column x - d of the same row, not one that came
\* round the edge.
C25_NoWrappedSample ==
    (pc = "returned" /\ "cost_function" \in DOMAIN args) =>
        \A p \in Pixels(disparity) :
            ~isnan(disparity[p[1]][p[2]]) =>
                \A i \in DOMAIN CallAxis :
                    /\ 0 <= (p[2] - 1) - CallAxis[i]
                    /\ (p[2] - 1) - CallAxis[i] <= Width(image_1) - 1
                    /\ roll(image_1, CallAxis[i])[p[1]][p[2]]
                          = image_1[p[1]][p[2] - CallAxis[i]]

\* an axis with disparities of both signs and a valid pixel right behind
\* each border, whose source columns reach column 0 and column W - 1
C25_Witness ==
    /\ pc = "returned"
    /\ "cost_function" \in DOMAIN args
    /\ \E i, j \in DOMAIN CallAxis : CallAxis[i] < 0 /\ CallAxis[j] > 0
    /\ \E p \in Pixels(disparity) :
          /\ ~isnan(disparity[p[1]][p[2]])
          /\ \E i \in DOMAIN CallAxis : (p[2] - 1) - CallAxis[i] = 0
    /\ \E p \in Pixels(disparity) :
          /\ ~isnan(disparity[p[1]][p[2]])
          /\ \E i \in DOMAIN CallAxis :
                (p[2] - 1) - CallAxis[i] = Width(image_1) - 1

----
\* C26 as stated: at a pixel whose minimum-cost index lies in [1, N - 2] (it
\* is not moved by the clip) and whose curvature a is not 0, a is positive,
\* the offset satisfies |delta| <= 1/2, and the value returned is a number
\* within 1/2 of the disparity at that index.
C26_OffsetWithinHalfStep ==
    (pc = "returned" /\ "disparities" \in DOMAIN args
        /\ Len(disparity_error) >= 3) =>
        \A p \in Pixels(disparity) :
            LET t == FitAt(p)
            IN  ( /\ 1 <= t.raw
                  /\ t.raw <= Len(disparity_error) - 2
                  /\ t.a # F(0) ) =>
                    /\ fgt(t.a, F(0))
                    /\ fle(fabs(t.delta), Float(1, 2))
                    /\ ~isnan(disparity[p[1]][p[2]])
                    /\ fle(fabs(fsub(disparity[p[1]][p[2]],
                                     F(args.disparities[t.raw + 1]))),
                           Float(1, 2))

\* the sum f_0 + f_2 of the fit is a float32 number: a is computed from it
\* without a rounded sum
ExactSum(t) == float32(fadd(t.f_0, t.f_2)) = fadd(t.f_0, t.f_2)

\* C26 amended: at a pixel whose minimum-cost index lies in [1, N - 2] and
\* whose curvature a is not 0, a is positive; where in addition the float32
\* sum f_0 + f_2 is exact, the offset satisfies |delta| <= 1/2 (|b| <= a)
\* and the value returned is a number within 1/2 of the disparity at that
\* index.
C26_OffsetWithinHalfStepExactSum ==
    (pc = "returned" /\ "disparities" \in DOMAIN args
        /\ Len(disparity_error) >= 3) =>
        \A p \in Pixels(disparity) :
            LET t == FitAt(p)
            IN  ( /\ 1 <= t.raw
                  /\ t.raw <= Len(disparity_error) - 2
                  /\ t.a # F(0) ) =>
                    /\ fgt(t.a, F(0))
                    /\ ExactSum(t) =>
                          /\ fle(fabs(t.b), t.a)
                          /\ fle(fabs(t.delta), Float(1, 2))
                          /\ ~isnan(disparity[p[1]][p[2]])
                          /\ fle(fabs(fsub(disparity[p[1]][p[2]],
                                           F(args.disparities[t.raw + 1]))),
                                 Float(1, 2))

\* an interior minimum whose right neighbour has the same cost: the offset
\* is 1/2, the bound itself
C26_Witness ==
    /\ pc = "returned"
    /\ "disparities" \in DOMAIN args
    /\ Len(disparity_error) >= 3
    /\ \E p \in Pixels(disparity) :
          /\ 1 <= FitAt(p).raw
          /\ FitAt(p).raw <= Len(disparity_error) - 2
          /\ flt(FitAt(p).f_1, FitAt(p).f_0)
          /\ FitAt(p).f_1 = FitAt(p).f_2
          /\ ExactSum(FitAt(p))
          /\ FitAt(p).delta = Float(1, 2)
          /\ disparity[p[1]][p[2]]
                = fadd(F(args.disparities[FitAt(p).raw + 1]), Float(1, 2))

----
\* C27: every value of the map block_matching returns that is a number is
\* strictly greater than the smallest and strictly less than the largest
\* value of the disparity axis; without sub-pixel fit it is a value of the
\* axis.
C27_ValidOutputRange ==
    (pc = "returned" /\ "cost_function" \in DOMAIN args) =>
        \A p \in Pixels(disparity) :
            ~isnan(disparity[p[1]][p[2]]) =>
                /\ flt(F(CallAxis[1]), disparity[p[1]][p[2]])
                /\ flt(disparity[p[1]][p[2]], F(CallAxis[Len(CallAxis)]))
                /\ ~args.subpixel_fit =>
                      \E i \in DOMAIN CallAxis :
                          disparity[p[1]][p[2]] = F(CallAxis[i])

\* a map of the sub-pixel fit holding a number that lies between two values
\* of the axis
C27_Witness ==
    /\ pc = "returned"
    /\ "cost_function" \in DOMAIN args
    /\ args.subpixel_fit
    /\ \E p \in Pixels(disparity) :
          /\ ~isnan(disparity[p[1]][p[2]])
          /\ \A i \in DOMAIN CallAxis : disparity[p[1]][p[2]] # F(CallAxis[i])

----
\* C28: block_matching tests the integers disparity_range[0], ...,
\* disparity_range[1] - 1 and not disparity_range[1]: its volume has
\* disparity_range[1] - disparity_range[0] slices, a selected disparity is
\* at most disparity_range[1] - 1, and no pixel of the result is greater
\* than or equal to disparity_range[1] - 1.  The cell before it tests
\* expected_disparity[0], ..., expected_disparity[1], the end included.
C28_ExclusiveUpperBound ==
    /\ (pc = "returned" /\ "cost_function" \in DOMAIN args) =>
          /\ Len(disparity_error)
                = args.disparity_range[2] - args.disparity_range[1]
          /\ \A p \in Pixels(disparity) :
                /\ ~fgt(selected[p[1]][p[2]], F(args.disparity_range[2] - 1))
                /\ ~args.subpixel_fit =>
                      fge(selected[p[1]][p[2]], F(args.disparity_range[1]))
                /\ ~fge(disparity[p[1]][p[2]], F(args.disparity_range[2] - 1))
    /\ (pc = "returned" /\ "expected_disparity" \in DOMAIN args) =>
          /\ Len(disparity_error)
                = args.expected_disparity[2] - args.expected_disparity[1] + 1
          /\ \A p \in Pixels(disparity) :
                /\ fle(selected[p[1]][p[2]], F(args.expected_disparity[2]))
                /\ fge(selected[p[1]][p[2]], F(args.expected_disparity[1]))

\* a call of block_matching that selected disparity_range[1] - 1, its last
\* hypothesis, at one pixel and returns disparity_range[1] - 2, the largest
\* value it can return, at another
C28_Witness ==
    /\ pc = "returned"
    /\ "cost_function" \in DOMAIN args
    /\ \E p \in Pixels(disparity) :
          selected[p[1]][p[2]] = F(args.disparity_range[2] - 1)
    /\ \E p \in Pixels(disparity) :
          disparity[p[1]][p[2]] = F(args.disparity_range[2] - 2)

----
\* the difference x - y of two float32 numbers, which is a float64 number
Minus(x, y) == sub64(float64(x), float64(y))

\* the axis starts at depth_range[0], consecutive values differ by
\* step_size, every value is below depth_range[1] + step_size, the last one
\* is at least depth_range[1], and it is above depth_range[1] when
\* depth_range[1] is not a value of the axis
AxisAsClaimed ==
    LET d0 == args.depth_range[1]
        d1 == args.depth_range[2]
        N  == Len(depths)
    IN  /\ N >= 1
        /\ depths[1] = d0
        /\ \A k \in 1 .. N - 1 :
              Minus(depths[k + 1], depths[k]) = args.step_size
        /\ \A k \in 1 .. N : lt64(Minus(depths[k], d1), args.step_size)
        /\ \A k \in 1 .. N - 1 : flt(depths[k], depths[k + 1])
        /\ fle(d1, depths[N])
        /\ (\A k \in 1 .. N : depths[k] # d1) => fgt(depths[N], d1)

\* depth_range[0] <= depth_range[1], step_size > 0, and the three are whole
\* multiples of one power of two 2^-j with magnitudes below 2^(22 - j): the
\* stop, its distance from the start and every depth_range[0] + k * step_size
\* up to the stop are then float32 numbers
OnGrid ==
    LET d0 == args.depth_range[1]
        d1 == args.depth_range[2]
        s  == single(args.step_size)
        j  == IntMax({d0[2], d1[2], s[2]})
        fits(x) == /\ j \div x[2] <= 4194304
                   /\ Abs(x[1]) < 4194304 \div (j \div x[2])
    IN  /\ float64(s) = args.step_size
        /\ fle(d0, d1)
        /\ flt(F(0), s)
        /\ fits(d0) /\ fits(d1) /\ fits(s)

\* C29 as stated: the depth axis of plane_sweeping is depth_range[0] +
\* k * step_size for k = 0, 1, ... for every such value strictly below
\* depth_range[1] + step_size; it is strictly increasing, its last value
\* lies in [depth_range[1], depth_range[1] + step_size), and it exceeds
\* depth_range[1] whenever depth_range[1] - depth_range[0] is not a
\* multiple of step_size.
C29_DepthAxis == pc = "arranged" => AxisAsClaimed

\* C29, for the depth ranges and steps whose axis values are float32
\* numbers: when depth_range[0] <= depth_range[1], step_size > 0 and
\* depth_range[0], depth_range[1] and step_size are whole multiples of one
\* power of two 2^-j with magnitudes below 2^(22 - j), the depth axis
\* is depth_range[0] + k * step_size for every such value strictly below
\* depth_range[1] + step_size; it is strictly increasing, its last value
\* lies in [depth_range[1], depth_range[1] + step_size), and it exceeds
\* depth_range[1] whenever depth_range[1] - depth_range[0] is not a
\* multiple of step_size.
C29_DepthAxisRepresentable == (pc = "arranged" /\ OnGrid) => AxisAsClaimed

\* the axis of the notebook's call, 130 to 150 by 1.5: fifteen values, the
\* last one 151, above depth_range[1]
C29_Witness ==
    /\ pc = "arranged"
    /\ OnGrid
    /\ args.depth_range = <<F(130), F(150)>>
    /\ args.step_size = literal(15, 10)
    /\ Len(depths) = 15
    /\ depths[15] = F(151)
    /\ \A k \in 1 .. 15 : depths[k] # F(150)

----
\* A point is invalid when its depth is NaN; the three components of a
\* point are NaN.
Invalid(point) == isnan(point[3])

AllNaN(point) == \A k \in 1 .. 3 : isnan(point[k])

\* C30: a pixel whose point is invalid in the map plane_sweeping returned
\* has three NaN components in the map handed to the post-filter; a pixel
\* invalid there has three NaN components after the filtering cell; and a
\* pixel invalid after the filtering cell has three NaN components after the
\* smoothing cell, whatever the smoothed depth at the pixel is.  Every map
\* stays as it is once it exists, so an invalid pixel stays invalid in every
\* later map.
C30_InvalidityPermanent ==
    /\ (xyz # <<>> /\ xyz_multiple_plane_sweep # <<>>) =>
          \A p \in Pixels(xyz) :
              Invalid(xyz[p[1]][p[2]])
                  => AllNaN(xyz_multiple_plane_sweep[p[1]][p[2]])
    /\ xyz_filtered # <<>> =>
          \A p \in Pixels(xyz_filtered) :
              Invalid(xyz_multiple_plane_sweep[p[1]][p[2]])
                  => AllNaN(xyz_filtered[p[1]][p[2]])
    /\ xyz_filtered_smoothed # <<>> =>
          \A p \in Pixels(xyz_filtered_smoothed) :
              Invalid(xyz_filtered[p[1]][p[2]])
                  => AllNaN(xyz_filtered_smoothed[p[1]][p[2]])

\* after the smoothing cell: a pixel left without depth by the sub-pixel
\* fit of plane_sweeping and a pixel rejected by the filtering cell, both
\* with a smoothed depth that is a number, both with three NaN components
C30_Witness ==
    /\ pc = "smoothed"
    /\ xyz # <<>>
    /\ fit # <<>>
    /\ \E p \in Pixels(xyz) :
          /\ isnan(fit[p[1]][p[2]].delta)
          /\ Invalid(xyz[p[1]][p[2]])
          /\ ~isnan64(z_filtered_smoothed[p[1]][p[2]])
          /\ AllNaN(xyz_filtered_smoothed[p[1]][p[2]])
    /\ \E p \in Pixels(xyz) :
          /\ ~Invalid(xyz_multiple_plane_sweep[p[1]][p[2]])
          /\ Invalid(xyz_filtered[p[1]][p[2]])
          /\ ~isnan64(z_filtered_smoothed[p[1]][p[2]])
          /\ AllNaN(xyz_filtered_smoothed[p[1]][p[2]])

=============================================================================
